---- MODULE Spec2Model ----
(***************************************************************************)
(* Graphive: the Graph State Store (useGraphStore), its optimistic         *)
(* mutation protocol and the two database adapters, as a state machine.    *)
(*                                                                         *)
(* Collections the code keeps in arrays (nodes, edges) are modelled as     *)
(* sets of records: no operation modelled here reads an array index.       *)
(* A node is [id, position, selected, data]; an edge is                    *)
(* [id, source, target, sourceHandle, targetHandle, selected, data].       *)
(* data is the JS object: a function whose DOMAIN is its key set.          *)
(***************************************************************************)
EXTENDS Integers, Sequences, FiniteSets, TLC

VARIABLES
    nodes,          \* store.nodes
    edges,          \* store.edges
    isSyncing,      \* store.isSyncing
    syncError,      \* store.syncError (Null or a message)
    isLoading,      \* store.isLoading
    nodeIdCounter,  \* module-level let nodeIdCounter
    clock,          \* Date.now(): every step happens at a later time
    pending,        \* backend calls in flight, each with its closure
    issued,         \* every backend call issued so far: <<op, entity id, ordinal>>
    lastOp,         \* the operation invoked or call resolved by the last step
    trace,          \* the steps so far, in order (kept by the scenario specifications)
    db,             \* the database behind the adapter (kept by SpecRev; elsewhere
                    \* a backend call is abstracted to its outcome)
    connectingFromRef,  \* App: connectingFromRef.current, the node a drag began on
    registry,       \* services/database: activeAdapter and the adapters constructed
    falkor,         \* a FalkorDBAdapter's session: its token and the server's view
    dashboard       \* store: the dashboard state (activeDashboardId, dashboardName,
                    \* cypherQuery, isDashboardDirty, isRestoring), the timeouts
                    \* set and localStorage's graphive_session

vars == <<nodes, edges, isSyncing, syncError, isLoading, nodeIdCounter,
          clock, pending, issued, lastOp, trace, db, connectingFromRef,
          registry, falkor, dashboard>>

storeVars == <<nodes, edges, isSyncing, syncError, isLoading>>

----------------------------------------------------------------------------
(* Bounds of the model *)

\* operations and resolutions in a run; each takes one tick of the clock
MaxSteps == 5
\* operations and resolutions in a scenario run
MaxScenarioSteps == 4

\* let nodeIdCounter = 5
FirstNodeId == 5

Null == "<null>"
Undefined == "<undefined>"

\* the id the backend assigns to the k-th node it is asked to create
BackendId(k) == "b" \o ToString(k)
\* an id no entity of the store has
AbsentId == "absent"
\* the handles a connect gesture goes from and to (RectangleNode's handle ids)
SourceHandles == {"bottom-h"}
TargetHandles == {"top-h"}
\* labels typed by the user
Labels == {"Alice"}
\* positions the canvas passes to addNode
Positions == {<<100, 100>>}

----------------------------------------------------------------------------
(* JS object helpers *)

\* obj[key], undefined when the key is absent
Get(obj, key) == IF key \in DOMAIN obj THEN obj[key] ELSE Undefined

\* { ...obj, ...patch }
Spread(obj, patch) ==
    [k \in DOMAIN obj \cup DOMAIN patch |->
        IF k \in DOMAIN patch THEN patch[k] ELSE obj[k]]

\* JS truthiness of a flag that is a boolean or absent
Truthy(obj, key) == key \in DOMAIN obj /\ obj[key] = TRUE

\* nodes.find(n => n.id === id) / edges.find(e => e.id === id)
Has(coll, id) == \E x \in coll : x.id = id
Find(coll, id) == CHOOSE x \in coll : x.id = id

\* coll.map(x => x.id === id ? f(x) : x)
MapId(coll, id, f) == {IF x.id = id THEN f[x] ELSE x : x \in coll}

NodeIds == {n.id : n \in nodes}

\* the number of calls of op already issued for entity id
Count(op, id) == Cardinality({c \in issued : c[1] = op /\ c[2] = id})

\* issuing one more backend call op(id)
Issue(op, id) == issued \cup {<<op, id, Count(op, id) + 1>>}

\* pending without its i-th call
Drop(i) == [j \in 1..(Len(pending) - 1) |->
                IF j < i THEN pending[j] ELSE pending[j + 1]]

----------------------------------------------------------------------------
(* Init: the store as created *)

\* a step: the operation, the entity it was invoked on, and a detail (the
\* outcome of a resolution, the second argument of a call)
Op(op, id, arg) == [op |-> op, id |-> id, arg |-> arg]

\* a catch-branch that leaves the in-flight marker set
KeptOnFailure(ok) == ~ok

\* isSyncing as the then-branch (ok) or the catch-branch of a backend call
\* writes it: set({ isSyncing: false })
Settled(ok) == FALSE

\* no database is modelled
NoDb == [adapter |-> "none", nodesHaveId |-> FALSE, rels |-> {}, original |-> {}]

\* let activeAdapter = null, and no adapter constructed yet. activeAdapter is
\* 0 for null, otherwise the position in adapters of the adapter object;
\* closing and testing hold the close and testConnection calls that are
\* suspended at their await
NoRegistry == [activeAdapter |-> 0, adapters |-> <<>>, closing |-> {},
               testing |-> {}]

\* the store's dashboard state as created: no active dashboard, no timeout
\* set, and a localStorage without graphive_session
NoDashboard == [activeDashboardId |-> Null, dashboardName |-> "Untitled",
                cypherQuery |-> "MATCH (n)", isDashboardDirty |-> FALSE,
                isRestoring |-> FALSE, timeouts |-> 0, session |-> {}]

\* a FalkorDBAdapter as constructed (accessToken = null, currentConfig =
\* null), an empty sessionStorage, and a server that has issued no token.
\* Tokens are numbered in the order the server issues them
NoSession == [accessToken |-> Null, currentConfig |-> FALSE, stored |-> Null,
              minted |-> 0, expired |-> {}]

\* one step of the run, made by operation o
Step(o) == /\ clock < MaxSteps
           /\ clock' = clock + 1
           /\ lastOp' = o
           /\ UNCHANGED <<trace, db, connectingFromRef, registry, falkor, dashboard>>

\* one step of a scenario run, which is recorded
ScenarioStep(o) == /\ clock < MaxScenarioSteps
                   /\ clock' = clock + 1
                   /\ lastOp' = o
                   /\ trace' = Append(trace, o)
                   /\ UNCHANGED <<db, connectingFromRef, registry, falkor, dashboard>>

Init ==
    /\ nodes = {}
    /\ edges = {}
    /\ isSyncing = FALSE
    /\ syncError = Null
    /\ isLoading = FALSE
    /\ nodeIdCounter = FirstNodeId
    /\ clock = 0
    /\ pending = <<>>
    /\ issued = {}
    /\ lastOp = Op("init", "", "")
    /\ trace = <<>>
    /\ db = NoDb
    /\ connectingFromRef = Null
    /\ registry = NoRegistry
    /\ falkor = NoSession
    /\ dashboard = NoDashboard

----------------------------------------------------------------------------
(* addNode(type, position) *)

\* the draft node addNode puts on the canvas
NewNode(nodeId, position) ==
    [id |-> nodeId, position |-> position, selected |-> FALSE,
     data |-> [label |-> "", isEditing |-> TRUE, isDraft |-> TRUE]]

addNode(position) ==
    /\ LET nodeId == ToString(nodeIdCounter)
       IN /\ nodes' = nodes \cup {NewNode(nodeId, position)}
          /\ Step(Op("addNode", nodeId, ""))
    /\ nodeIdCounter' = nodeIdCounter + 1
    /\ UNCHANGED <<edges, isSyncing, syncError, isLoading, pending, issued>>

(* onConnect(connection): a draft edge, local only *)

\* addEdge of @xyflow/react: the edge is appended unless an edge with the same
\* endpoints and handles is already there
connectionExists(edge, es) ==
    \E el \in es : /\ el.source = edge.source
                   /\ el.target = edge.target
                   /\ el.sourceHandle = edge.sourceHandle
                   /\ el.targetHandle = edge.targetHandle

addEdge(edge, es) == IF connectionExists(edge, es) THEN es ELSE es \cup {edge}

\* a connect that lets every connection through
NoSelfLoopGuardOff(source, target) == TRUE

\* if (connection.source === connection.target) return
NoSelfLoopGuard(source, target) == source # target

\* what onConnect does to the store
ConnectStore(source, target, sh, th) ==
    /\ IF ~NoSelfLoopGuard(source, target)
       THEN UNCHANGED edges
       ELSE LET edgeId  == "e" \o source \o "-" \o target \o "-" \o ToString(clock)
                newEdge == [id |-> edgeId, source |-> source, target |-> target,
                            sourceHandle |-> sh, targetHandle |-> th,
                            selected |-> FALSE,
                            data |-> [label |-> "", isDraft |-> TRUE,
                                      isEditing |-> TRUE]]
            IN edges' = addEdge(newEdge, edges)
    /\ UNCHANGED <<nodes, isSyncing, syncError, isLoading, nodeIdCounter,
                   pending, issued>>

onConnect(source, target, sh, th) ==
    /\ Step(Op("onConnect", source, target))
    /\ ConnectStore(source, target, sh, th)

----------------------------------------------------------------------------
(* commitDraftEdge(edgeId, label), discardDraftEdge(edgeId) *)

\* label.trim(), for the labels of the model
Trim(label) == CASE label = " " -> ""
                 [] label = " Alice" -> "Alice"
                 [] OTHER -> label

\* label.trim() || 'LINK'
FinalLabel(label) == IF Trim(label) = "" THEN "LINK" ELSE Trim(label)

commitDraftEdge(edgeId, label) ==
    /\ Step(Op("commitDraftEdge", edgeId, label))
    /\ IF ~Has(edges, edgeId)
       THEN UNCHANGED <<isSyncing, syncError, pending, issued>>
       ELSE /\ isSyncing' = TRUE
            /\ syncError' = Null
            /\ issued' = Issue("createEdge", edgeId)
            /\ pending' = Append(pending,
                    [op |-> "createEdge", id |-> edgeId,
                     finalLabel |-> FinalLabel(label),
                     edges |-> edges])
    /\ UNCHANGED <<nodes, edges, isLoading, nodeIdCounter>>

\* the store write of commitDraftEdge's success branch: the edges captured when
\* the commit started, with the committed edge patched
CommitEdgeWrite(c) ==
    MapId(c.edges, c.id,
          [e \in c.edges |-> [e EXCEPT !.data = Spread(e.data,
                        [isDraft |-> FALSE, isEditing |-> FALSE,
                         label |-> c.finalLabel])]])

createEdgeResolve(i, ok) ==
    /\ i \in 1..Len(pending)
    /\ pending[i].op = "createEdge"
    /\ LET c == pending[i]
       IN /\ Step(Op("createEdgeResolve", c.id, IF ok THEN "ok" ELSE "fail"))
          /\ IF ok
             THEN /\ edges' = CommitEdgeWrite(c)
                  /\ UNCHANGED syncError
             ELSE /\ syncError' = "Failed to save connection"
                  /\ UNCHANGED edges
    /\ isSyncing' = Settled(ok)
    /\ pending' = Drop(i)
    /\ UNCHANGED <<nodes, isLoading, nodeIdCounter, issued>>

discardDraftEdge(edgeId) ==
    /\ Step(Op("discardDraftEdge", edgeId, ""))
    /\ edges' = {e \in edges : e.id # edgeId}
    /\ UNCHANGED <<nodes, isSyncing, syncError, isLoading, nodeIdCounter,
                   pending, issued>>

----------------------------------------------------------------------------
(* commitDraftNode(nodeId, label), discardDraftNode(nodeId) *)

\* a guard that looks for the node only, not at its draft flag
IsDraftNodeNoFlag(nodeId) == Has(nodes, nodeId)

\* if (!node || !node.data.isDraft) return
IsDraftNode(nodeId) == Has(nodes, nodeId) /\ Truthy(Find(nodes, nodeId).data, "isDraft")

commitDraftNode(nodeId, label) ==
    /\ Step(Op("commitDraftNode", nodeId, label))
    /\ IF ~IsDraftNode(nodeId)
       THEN UNCHANGED <<nodes, isSyncing, pending, issued>>
       ELSE /\ nodes' = MapId(nodes, nodeId,
                    [n \in nodes |-> [n EXCEPT !.data = Spread(n.data,
                        [label |-> label, name |-> label,
                         isEditing |-> FALSE, isDraft |-> FALSE])]])
            /\ isSyncing' = TRUE
            /\ issued' = Issue("createNode", nodeId)
            /\ pending' = Append(pending,
                    [op |-> "createNode", id |-> nodeId, label |-> label,
                     newId |-> BackendId(
                        Cardinality({c \in issued : c[1] = "createNode"}) + 1)])
    /\ UNCHANGED <<edges, syncError, isLoading, nodeIdCounter>>

\* a success branch that leaves the edges as they are
ReconcileEdgesNone(es, nodeId, newId) == es

\* the success branch's rewrite of the edges: the placeholder id replaced
ReconcileEdges(es, nodeId, newId) ==
    {[e EXCEPT !.source = IF e.source = nodeId THEN newId ELSE e.source,
               !.target = IF e.target = nodeId THEN newId ELSE e.target]
        : e \in es}

\* the failure branch: the node is removed
CommitNodeRollback(ns, nodeId) == {n \in ns : n.id # nodeId}

\* the createNode call resolves with the id realId the backend assigned
createNodeSettle(i, ok, realId) ==
    /\ i \in 1..Len(pending)
    /\ pending[i].op = "createNode"
    /\ LET c == [pending[i] EXCEPT !.newId = realId]
       IN /\ Step(Op("createNodeResolve", c.id, IF ok THEN "ok" ELSE "fail"))
          /\ IF ok
             THEN /\ nodes' = MapId(nodes, c.id,
                        [n \in nodes |-> [n EXCEPT !.id = c.newId,
                            !.data = Spread(n.data, [_elementId |-> c.newId])]])
                  /\ edges' = ReconcileEdges(edges, c.id, c.newId)
                  /\ UNCHANGED syncError
             ELSE /\ nodes' = CommitNodeRollback(nodes, c.id)
                  /\ syncError' = "Failed to create node"
                  /\ UNCHANGED edges
    /\ isSyncing' = Settled(ok)
    /\ pending' = Drop(i)
    /\ UNCHANGED <<isLoading, nodeIdCounter, issued>>

\* the backend assigns the element id the call was issued with
createNodeResolve(i, ok) ==
    /\ i \in 1..Len(pending)
    /\ createNodeSettle(i, ok, pending[i].newId)

discardDraftNode(nodeId) ==
    /\ Step(Op("discardDraftNode", nodeId, ""))
    /\ IF ~IsDraftNode(nodeId)
       THEN UNCHANGED nodes
       ELSE nodes' = {n \in nodes : n.id # nodeId}
    /\ UNCHANGED <<edges, isSyncing, syncError, isLoading, nodeIdCounter,
                   pending, issued>>

----------------------------------------------------------------------------
(* onNodesChange / onEdgesChange with one 'select' change *)

onNodesChange(id, selected) ==
    /\ Step(Op("onNodesChange", id, IF selected THEN "select" ELSE "deselect"))
    /\ nodes' = MapId(nodes, id, [n \in nodes |-> [n EXCEPT !.selected = selected]])
    /\ nodes' # nodes
    /\ UNCHANGED <<edges, isSyncing, syncError, isLoading, nodeIdCounter,
                   pending, issued>>

onEdgesChange(id, selected) ==
    /\ Step(Op("onEdgesChange", id, IF selected THEN "select" ELSE "deselect"))
    /\ edges' = MapId(edges, id, [e \in edges |-> [e EXCEPT !.selected = selected]])
    /\ edges' # edges
    /\ UNCHANGED <<nodes, isSyncing, syncError, isLoading, nodeIdCounter,
                   pending, issued>>

----------------------------------------------------------------------------
(* deleteSelectedFromDB() *)

\* the failure branch of Promise.all(deletePromises): what the store's nodes
\* and edges become, given the call's closure c and the current collections
DeleteRollbackNodes(c, ns) == c.originalNodes
DeleteRollbackEdges(c, es) == c.originalEdges

deleteSelectedFromDB ==
    LET selectedNodeIds == {n.id : n \in {m \in nodes : m.selected}}
        selectedEdgeIds == {e.id : e \in {f \in edges : f.selected}}
        remainingNodes  == {n \in nodes : ~n.selected}
        remainingEdges  == {e \in edges : /\ ~e.selected
                                          /\ e.source \notin selectedNodeIds
                                          /\ e.target \notin selectedNodeIds}
        deletes == {<<"deleteEdge", id>> : id \in selectedEdgeIds}
                   \cup {<<"deleteNode", id>> : id \in selectedNodeIds}
    IN /\ Step(Op("deleteSelectedFromDB", "", ""))
       /\ nodes' = remainingNodes
       /\ edges' = remainingEdges
       /\ IF deletes = {}
          THEN \* Promise.all([]) is fulfilled at once: its then-branch runs
               /\ isSyncing' = FALSE
               /\ UNCHANGED <<pending, issued>>
          ELSE /\ isSyncing' = TRUE
               /\ issued' = issued \cup
                    {<<d[1], d[2], Count(d[1], d[2]) + 1>> : d \in deletes}
               /\ pending' = Append(pending,
                    [op |-> "delete", id |-> "",
                     originalNodes |-> nodes, originalEdges |-> edges,
                     outstanding |-> deletes, rejected |-> FALSE])
       /\ UNCHANGED <<syncError, isLoading, nodeIdCounter>>

\* one of the batch's delete calls resolves; Promise.all rejects on the first
\* failure and is fulfilled when the last call has succeeded
deleteResolve(i, d, ok) ==
    /\ i \in 1..Len(pending)
    /\ pending[i].op = "delete"
    /\ d \in pending[i].outstanding
    /\ LET c    == pending[i]
           left == c.outstanding \ {d}
           rej  == c.rejected \/ ~ok
       IN /\ Step(Op("deleteResolve", d[2], IF ok THEN "ok" ELSE "fail"))
          /\ IF ~ok /\ ~c.rejected
             THEN /\ nodes' = DeleteRollbackNodes(c, nodes)
                  /\ edges' = DeleteRollbackEdges(c, edges)
                  /\ isSyncing' = Settled(FALSE)
                  /\ syncError' = "Some deletions failed to sync"
             ELSE IF ok /\ ~c.rejected /\ left = {}
             THEN /\ isSyncing' = Settled(TRUE)
                  /\ UNCHANGED <<nodes, edges, syncError>>
             ELSE UNCHANGED <<nodes, edges, isSyncing, syncError>>
          /\ pending' = IF left = {} THEN Drop(i)
                        ELSE [pending EXCEPT ![i].outstanding = left,
                                             ![i].rejected = rej]
    /\ UNCHANGED <<isLoading, nodeIdCounter, issued>>

----------------------------------------------------------------------------
(* onReconnect(oldEdge, newConnection) *)

\* getEdgeId of @xyflow/react
getEdgeId(c) ==
    "xy-edge__" \o c.source \o c.sourceHandle \o "-" \o c.target \o c.targetHandle

\* reconnectEdge of @xyflow/react with its default options (shouldReplaceId):
\* the old edge is removed and an edge with the old edge's fields, the new
\* connection's endpoints and handles and an id made from them is appended
reconnectEdge(oldEdge, c, es) ==
    IF ~Has(es, oldEdge.id) THEN es
    ELSE {e \in es : e.id # oldEdge.id} \cup
         {[oldEdge EXCEPT !.id = getEdgeId(c),
                          !.source = c.source, !.target = c.target,
                          !.sourceHandle = c.sourceHandle,
                          !.targetHandle = c.targetHandle]}

\* the failure branch of neo4jMigrateRelationship
MigrateRollback(c, es) == c.originalEdges

onReconnect(oldEdge, newConnection) ==
    LET originalEdges == edges
        newEdges == reconnectEdge(oldEdge, newConnection, originalEdges)
    IN /\ Step(Op("onReconnect", oldEdge.id, getEdgeId(newConnection)))
       /\ edges' = newEdges
       /\ IF ~Has(newEdges, oldEdge.id)
          THEN /\ isSyncing' = FALSE
               /\ UNCHANGED <<pending, issued>>
          ELSE LET updatedEdge == Find(newEdges, oldEdge.id)
               IN /\ isSyncing' = TRUE
                  /\ issued' = Issue("migrate", oldEdge.id)
                  /\ pending' = Append(pending,
                        [op |-> "migrate", id |-> oldEdge.id,
                         newSource |-> updatedEdge.source,
                         newTarget |-> updatedEdge.target,
                         originalEdges |-> originalEdges])
       /\ UNCHANGED <<nodes, syncError, isLoading, nodeIdCounter>>

\* the then / catch of neo4jMigrateRelationship in onReconnect
MigrateSettle(i, ok) ==
    /\ LET c == pending[i]
       IN IF ok
          THEN UNCHANGED <<edges, syncError>>
          ELSE /\ edges' = MigrateRollback(c, edges)
               /\ syncError' = "Failed to migrate edge"
    /\ isSyncing' = Settled(ok)
    /\ pending' = Drop(i)
    /\ UNCHANGED <<nodes, isLoading, nodeIdCounter, issued>>

migrateResolve(i, ok) ==
    /\ i \in 1..Len(pending)
    /\ pending[i].op = "migrate"
    /\ Step(Op("migrateResolve", pending[i].id, IF ok THEN "ok" ELSE "fail"))
    /\ MigrateSettle(i, ok)

----------------------------------------------------------------------------
(* flipEdge(edgeId) *)

\* source and target swapped, and the handles with them
Flipped(e) == [e EXCEPT !.source = e.target, !.target = e.source,
                        !.sourceHandle = e.targetHandle,
                        !.targetHandle = e.sourceHandle]

flipEdge(edgeId) ==
    /\ Step(Op("flipEdge", edgeId, ""))
    /\ IF ~Has(edges, edgeId)
       THEN UNCHANGED <<edges, pending, issued>>
       ELSE /\ edges' = MapId(edges, edgeId, [x \in edges |-> Flipped(x)])
            /\ issued' = Issue("reverse", edgeId)
            /\ pending' = Append(pending,
                    [op |-> "reverse", id |-> edgeId,
                     originalEdge |-> Find(edges, edgeId)])
    /\ UNCHANGED <<nodes, isSyncing, syncError, isLoading, nodeIdCounter>>

\* the continuation of flipEdge after await neo4jReverseRelationship(edgeId)
FlipSettle(i, ok) ==
    /\ LET c == pending[i]
       IN IF ok
          THEN UNCHANGED <<edges, syncError>>
          ELSE /\ edges' = MapId(edges, c.id, [e \in edges |-> c.originalEdge])
               /\ syncError' = "Failed to reverse relationship"
    /\ pending' = Drop(i)
    /\ UNCHANGED <<nodes, isSyncing, isLoading, nodeIdCounter, issued>>

reverseResolve(i, ok) ==
    /\ i \in 1..Len(pending)
    /\ pending[i].op = "reverse"
    /\ Step(Op("reverseResolve", pending[i].id, IF ok THEN "ok" ELSE "fail"))
    /\ FlipSettle(i, ok)

----------------------------------------------------------------------------
(* executeNeo4jQuery(cypherQuery, additive) *)

\* a node and a relationship as transformNeo4jData projects them
DbNode(id, name) ==
    [id |-> id, position |-> <<0, 0>>, selected |-> FALSE,
     data |-> [name |-> name, _elementId |-> id]]
DbEdge(id, source, target, type) ==
    [id |-> id, source |-> source, target |-> target,
     sourceHandle |-> "bottom-h", targetHandle |-> "top-h",
     selected |-> FALSE, data |-> [label |-> type]]

\* the projections the queries of a run return: two nodes and the relationship
\* between them, and one of the nodes alone
QueryResults ==
    { [nodes |-> {DbNode("x1", "X1"), DbNode("x2", "X2")},
       edges |-> {DbEdge("r1", "x1", "x2", "REL")}],
      [nodes |-> {DbNode("x1", "X1")}, edges |-> {}] }

Max(S) == CHOOSE x \in S : \A y \in S : y <= x

\* getLayoutedElements: dagre, top to bottom. A node with an edge coming in
\* from another node is placed one rank lower (ranksep 80 + height 60); the
\* margins are 20. The order within a rank is not modelled.
DagrePosition(n, es) ==
    <<20, IF \E e \in es : e.target = n.id /\ e.source # n.id THEN 160 ELSE 20>>

getLayoutedElements(ns, es) ==
    [nodes |-> {[n EXCEPT !.position = DagrePosition(n, es)] : n \in ns},
     edges |-> es]

\* a merge that takes every item of the result
Everything(items, coll) == items

\* result.nodes.filter(n => !existingNodeIds.has(n.id)), and so for the edges
NotOnCanvas(items, coll) == {x \in items : x.id \notin {y.id : y \in coll}}

executeNeo4jQuery(additive) ==
    /\ Step(Op("executeNeo4jQuery", "", IF additive THEN "merge" ELSE "replace"))
    /\ isLoading' = TRUE
    /\ issued' = Issue("query", "")
    /\ pending' = Append(pending, [op |-> "query", id |-> "", additive |-> additive])
    /\ UNCHANGED <<nodes, edges, isSyncing, syncError, nodeIdCounter>>

queryResolve(i, ok, result) ==
    /\ i \in 1..Len(pending)
    /\ pending[i].op = "query"
    /\ Step(Op("queryResolve", IF pending[i].additive THEN "merge" ELSE "replace",
                IF ok THEN "ok" ELSE "fail"))
    /\ IF ~ok
       THEN UNCHANGED <<nodes, edges>>
       ELSE IF pending[i].additive
       THEN LET newNodes == NotOnCanvas(result.nodes, nodes)
                newEdges == NotOnCanvas(result.edges, edges)
                layouted == getLayoutedElements(newNodes, newEdges)
                maxX == IF nodes # {}
                        THEN Max({n.position[1] : n \in nodes}) + 300 ELSE 0
            IN /\ nodes' = nodes \cup
                    {[n EXCEPT !.position = <<n.position[1] + maxX, n.position[2]>>]
                        : n \in layouted.nodes}
               /\ edges' = edges \cup newEdges
       ELSE LET layouted == getLayoutedElements(result.nodes, result.edges)
            IN /\ nodes' = layouted.nodes
               /\ edges' = layouted.edges
    /\ isLoading' = FALSE
    /\ pending' = Drop(i)
    /\ UNCHANGED <<isSyncing, syncError, nodeIdCounter, issued>>

----------------------------------------------------------------------------
(* Inputs *)

\* every id a node of this run can have, and one no node has
NodeIdInputs == NodeIds \cup {AbsentId}
EdgeIdInputs == {e.id : e \in edges} \cup {AbsentId}

\* a reconnect gesture drags one end of the edge onto a node
Reconnections(e) ==
    {[source |-> n, target |-> e.target,
      sourceHandle |-> e.sourceHandle, targetHandle |-> e.targetHandle]
        : n \in NodeIds}
    \cup
    {[source |-> e.source, target |-> n,
      sourceHandle |-> e.sourceHandle, targetHandle |-> e.targetHandle]
        : n \in NodeIds}

\* the delete calls of the i-th pending call that have not resolved
Outstanding(i) == IF pending[i].op = "delete" THEN pending[i].outstanding ELSE {}

\* an operation of the store is invoked
Invocation ==
    \/ \E p \in Positions : addNode(p)
    \/ \E s \in NodeIds, t \in NodeIds, sh \in SourceHandles, th \in TargetHandles :
            onConnect(s, t, sh, th)
    \/ \E id \in EdgeIdInputs, l \in Labels : commitDraftEdge(id, l)
    \/ \E id \in EdgeIdInputs : discardDraftEdge(id)
    \/ \E id \in NodeIdInputs, l \in Labels : commitDraftNode(id, l)
    \/ \E id \in NodeIdInputs : discardDraftNode(id)
    \/ \E id \in NodeIds, b \in BOOLEAN : onNodesChange(id, b)
    \/ \E e \in edges, b \in BOOLEAN : onEdgesChange(e.id, b)
    \/ deleteSelectedFromDB
    \/ \E e \in edges : \E c \in Reconnections(e) : onReconnect(e, c)
    \/ \E id \in EdgeIdInputs : flipEdge(id)
    \/ \E b \in BOOLEAN : executeNeo4jQuery(b)

\* a backend call in flight resolves
Resolution ==
    \/ \E i \in 1..Len(pending), ok \in BOOLEAN : createEdgeResolve(i, ok)
    \/ \E i \in 1..Len(pending), ok \in BOOLEAN : createNodeResolve(i, ok)
    \/ \E i \in 1..Len(pending), ok \in BOOLEAN :
            \E d \in Outstanding(i) : deleteResolve(i, d, ok)
    \/ \E i \in 1..Len(pending), ok \in BOOLEAN : migrateResolve(i, ok)
    \/ \E i \in 1..Len(pending), ok \in BOOLEAN : reverseResolve(i, ok)
    \/ \E i \in 1..Len(pending), ok \in BOOLEAN, r \in QueryResults :
            queryResolve(i, ok, r)

Next == Invocation \/ Resolution

Spec == Init /\ [][Next]_vars

\* the resolutions the calls in flight in p still need
RECURSIVE Unresolved(_)
Unresolved(p) ==
    IF p = <<>> THEN 0
    ELSE (IF Head(p).op = "delete" THEN Cardinality(Head(p).outstanding) ELSE 1)
            + Unresolved(Tail(p))

\* Every backend call settles: its promise is fulfilled or rejected. The run
\* invokes an operation only while the steps left suffice to see every call
\* in flight resolve.
NextLive ==
    \/ Invocation /\ clock' + Unresolved(pending') <= MaxSteps
    \/ Resolution

SpecLive == Init /\ [][NextLive]_vars /\ WF_vars(Resolution)

----------------------------------------------------------------------------
(* App: handleConnectStart, handleConnect, handleConnectEnd, the handlers of *)
(* the canvas's connect gesture: checked under SpecGesture                   *)

\* one step of the App's handlers, which own connectingFromRef
AppStep(o) == /\ clock < MaxSteps
              /\ clock' = clock + 1
              /\ lastOp' = o
              /\ UNCHANGED <<trace, db, registry, falkor, dashboard>>

handleConnectStart(nodeId) ==
    /\ AppStep(Op("handleConnectStart", nodeId, ""))
    /\ connectingFromRef' = nodeId
    /\ UNCHANGED <<storeVars, nodeIdCounter, pending, issued>>

handleConnectEnd ==
    /\ AppStep(Op("handleConnectEnd", "", ""))
    /\ connectingFromRef' = Null
    /\ UNCHANGED <<storeVars, nodeIdCounter, pending, issued>>

\* a connection handed on as the canvas reported it
PassThrough(c, dragOrigin) == c

\* the connection handleConnect hands to onConnect: source and target swapped
\* when the drag began on what the canvas reports as the target; the handle
\* ids stay where they are
Directed(c, dragOrigin) ==
    IF dragOrigin # Null /\ c.source # dragOrigin /\ c.target = dragOrigin
    THEN [c EXCEPT !.source = c.target, !.target = c.source]
    ELSE c

handleConnect(c) ==
    /\ AppStep(Op("handleConnect", c.source, c.target))
    /\ UNCHANGED connectingFromRef
    /\ IF c.source = Null \/ c.target = Null
       THEN UNCHANGED <<storeVars, nodeIdCounter, pending, issued>>
       ELSE LET d == Directed(c, connectingFromRef)
            IN ConnectStore(d.source, d.target, d.sourceHandle, d.targetHandle)

\* the connections the canvas reports: between nodes, or with an end missing
Connections ==
    [source : NodeIds \cup {Null}, target : NodeIds \cup {Null},
     sourceHandle : SourceHandles, targetHandle : TargetHandles]

NextGesture ==
    \/ \E p \in Positions : addNode(p)
    \/ \E id \in NodeIds \cup {Null} : handleConnectStart(id)
    \/ \E c \in Connections : handleConnect(c)
    \/ handleConnectEnd

SpecGesture == Init /\ [][NextGesture]_vars

----------------------------------------------------------------------------
(* The draft-node operations next to a delete: checked under SpecDraft,      *)
(* which starts from the canvas after addNode has run twice                  *)

InitDraft ==
    /\ nodes = {NewNode(ToString(FirstNodeId), <<100, 100>>),
                NewNode(ToString(FirstNodeId + 1), <<100, 100>>)}
    /\ edges = {}
    /\ isSyncing = FALSE
    /\ syncError = Null
    /\ isLoading = FALSE
    /\ nodeIdCounter = FirstNodeId + 2
    /\ clock = 0
    /\ pending = <<>>
    /\ issued = {}
    /\ lastOp = Op("init", "", "")
    /\ trace = <<>>
    /\ db = NoDb
    /\ connectingFromRef = Null
    /\ registry = NoRegistry
    /\ falkor = NoSession
    /\ dashboard = NoDashboard

NextDraft ==
    \/ \E id \in NodeIdInputs, l \in Labels : commitDraftNode(id, l)
    \/ \E id \in NodeIdInputs : discardDraftNode(id)
    \/ \E id \in NodeIds, b \in BOOLEAN : onNodesChange(id, b)
    \/ deleteSelectedFromDB
    \/ \E i \in 1..Len(pending), ok \in BOOLEAN : createNodeResolve(i, ok)
    \/ \E i \in 1..Len(pending), ok \in BOOLEAN :
            \E d \in Outstanding(i) : deleteResolve(i, d, ok)

SpecDraft == InitDraft /\ [][NextDraft]_vars

----------------------------------------------------------------------------
(* updateNodeProperty(nodeId, key, value), updateNodeLabel(id, label):       *)
(* checked under SpecProp, whose canvas holds one persisted node             *)

\* the property keys and values of the edits, and the names typed
PropKeys == {"p", "q"}
PropValues == {"2", "5"}
Names == {"N1", "N2"}

\* the node of the scenario: loaded from the backend, p = 1
NodeA(data) == [id |-> "A", position |-> <<20, 20>>, selected |-> FALSE,
                data |-> Spread([name |-> "X", _elementId |-> "A", p |-> "1"],
                                data)]

InitProp ==
    /\ nodes \in {{NodeA(<<>>)}, {NodeA([q |-> "7"])}}
    /\ edges = {}
    /\ isSyncing = FALSE
    /\ syncError = Null
    /\ isLoading = FALSE
    /\ nodeIdCounter = FirstNodeId
    /\ clock = 0
    /\ pending = <<>>
    /\ issued = {}
    /\ lastOp = Op("init", "", "")
    /\ trace = <<>>
    /\ db = NoDb
    /\ connectingFromRef = Null
    /\ registry = NoRegistry
    /\ falkor = NoSession
    /\ dashboard = NoDashboard

\* node => ({ ...node, data: { ...node.data, [key]: value } })
SetKey(n, key, value) == [n EXCEPT !.data = Spread(n.data, key :> value)]

\* originalNode?.data[key]
OriginalValue(ns, id, key) ==
    IF Has(ns, id) THEN Get(Find(ns, id).data, key) ELSE Undefined

updateNodeProperty(nodeId, key, value) ==
    /\ ScenarioStep(Op("updateNodeProperty", nodeId, key \o "=" \o value))
    /\ nodes' = MapId(nodes, nodeId, [n \in nodes |-> SetKey(n, key, value)])
    /\ isSyncing' = TRUE
    /\ issued' = Issue("updateProperty", nodeId)
    /\ pending' = Append(pending,
            [op |-> "updateProperty", id |-> nodeId, key |-> key, value |-> value,
             originalNodes |-> nodes,
             originalValue |-> OriginalValue(nodes, nodeId, key)])
    /\ UNCHANGED <<edges, syncError, isLoading, nodeIdCounter>>

\* a rollback that restores the nodes captured at the start
PropertyRollbackFull(c, ns) == c.originalNodes

\* the catch branch: the key is set back to the value captured at the start
PropertyRollback(c, ns) ==
    MapId(ns, c.id, [n \in ns |-> SetKey(n, c.key, c.originalValue)])

propertyResolve(i, ok) ==
    /\ i \in 1..Len(pending)
    /\ pending[i].op = "updateProperty"
    /\ LET c == pending[i]
       IN /\ ScenarioStep(Op("propertyResolve", c.id,
                             c.key \o "=" \o c.value \o
                                (IF ok THEN ":ok" ELSE ":fail")))
          /\ nodes' = IF ok THEN nodes ELSE PropertyRollback(c, nodes)
    /\ isSyncing' = Settled(ok)
    /\ pending' = Drop(i)
    /\ UNCHANGED <<edges, syncError, isLoading, nodeIdCounter, issued>>

updateNodeLabel(id, label) ==
    /\ ScenarioStep(Op("updateNodeLabel", id, label))
    /\ nodes' = MapId(nodes, id,
            [n \in nodes |-> [n EXCEPT !.data = Spread(n.data,
                            [label |-> label, name |-> label])]])
    /\ isSyncing' = TRUE
    /\ issued' = Issue("updateNodeName", id)
    /\ pending' = Append(pending,
            [op |-> "updateNodeName", id |-> id, label |-> label,
             originalLabel |-> OriginalValue(nodes, id, "label"),
             originalName |-> OriginalValue(nodes, id, "name")])
    /\ UNCHANGED <<edges, syncError, isLoading, nodeIdCounter>>

\* the catch branch: label: originalLabel ?? label, name: originalName
LabelRollback(c, ns) ==
    MapId(ns, c.id,
          [n \in ns |-> [n EXCEPT !.data = Spread(n.data,
                [label |-> IF c.originalLabel = Undefined
                           THEN c.label ELSE c.originalLabel,
                 name |-> c.originalName])]])

labelResolve(i, ok) ==
    /\ i \in 1..Len(pending)
    /\ pending[i].op = "updateNodeName"
    /\ LET c == pending[i]
       IN /\ ScenarioStep(Op("labelResolve", c.id,
                             c.label \o (IF ok THEN ":ok" ELSE ":fail")))
          /\ IF ok
             THEN UNCHANGED <<nodes, syncError>>
             ELSE /\ nodes' = LabelRollback(c, nodes)
                  /\ syncError' = "Failed to update node name"
    /\ isSyncing' = Settled(ok)
    /\ pending' = Drop(i)
    /\ UNCHANGED <<edges, isLoading, nodeIdCounter, issued>>

NextProp ==
    \/ \E id \in NodeIdInputs, k \in PropKeys, v \in PropValues :
            updateNodeProperty(id, k, v)
    \/ \E id \in NodeIdInputs, l \in Names : updateNodeLabel(id, l)
    \/ \E i \in 1..Len(pending), ok \in BOOLEAN : propertyResolve(i, ok)
    \/ \E i \in 1..Len(pending), ok \in BOOLEAN : labelResolve(i, ok)

SpecProp == InitProp /\ [][NextProp]_vars

\* const { [key]: _, ...restData } = node.data
RemoveKey(n, key) ==
    [n EXCEPT !.data = [k \in DOMAIN n.data \ {key} |-> n.data[k]]]

deleteNodeProperty(nodeId, key) ==
    /\ ScenarioStep(Op("deleteNodeProperty", nodeId, key))
    /\ nodes' = MapId(nodes, nodeId, [n \in nodes |-> RemoveKey(n, key)])
    /\ isSyncing' = TRUE
    /\ issued' = Issue("deleteProperty", nodeId)
    /\ pending' = Append(pending,
            [op |-> "deleteProperty", id |-> nodeId, key |-> key, value |-> "",
             originalNodes |-> nodes,
             originalValue |-> OriginalValue(nodes, nodeId, key)])
    /\ UNCHANGED <<edges, syncError, isLoading, nodeIdCounter>>

\* the deleteProperty call settles; its catch branch sets the key back to
\* the value captured at the start, as updateNodeProperty's does
deletePropertyResolve(i, ok) ==
    /\ i \in 1..Len(pending)
    /\ pending[i].op = "deleteProperty"
    /\ LET c == pending[i]
       IN /\ ScenarioStep(Op("deletePropertyResolve", c.id,
                             c.key \o "=" \o c.value \o
                                (IF ok THEN ":ok" ELSE ":fail")))
          /\ nodes' = IF ok THEN nodes ELSE PropertyRollback(c, nodes)
    /\ isSyncing' = Settled(ok)
    /\ pending' = Drop(i)
    /\ UNCHANGED <<edges, syncError, isLoading, nodeIdCounter, issued>>

NextKeys ==
    \/ \E id \in NodeIdInputs, k \in PropKeys, v \in PropValues :
            updateNodeProperty(id, k, v)
    \/ \E id \in NodeIdInputs, k \in PropKeys : deleteNodeProperty(id, k)
    \/ \E i \in 1..Len(pending), ok \in BOOLEAN : propertyResolve(i, ok)
    \/ \E i \in 1..Len(pending), ok \in BOOLEAN : deletePropertyResolve(i, ok)

SpecKeys == InitProp /\ [][NextKeys]_vars

\* C2: node A has p = 1; updateNodeProperty(A,'p',2) is started, then, before
\* it resolves, updateNodeProperty(A,'q',5); the first call fails and the
\* second succeeds, in either order: the store then holds A.p = 1 and A.q = 5.
C2_Scenario ==
    /\ Len(trace) = 4
    /\ trace[1] = Op("updateNodeProperty", "A", "p=2")
    /\ trace[2] = Op("updateNodeProperty", "A", "q=5")
    /\ {trace[3], trace[4]} = {Op("propertyResolve", "A", "p=2:fail"),
                               Op("propertyResolve", "A", "q=5:ok")}

C2_RollbackPrecision ==
    C2_Scenario =>
        \A n \in nodes : n.id = "A" =>
            /\ Get(n.data, "p") = "1"
            /\ Get(n.data, "q") = "5"

\* the scenario has run to its end, and A is on the canvas
C2_Witness == C2_Scenario /\ pending = <<>> /\ Has(nodes, "A")

\* the i-th pending call is the one this step resolves
Resolves(i) == pending' = Drop(i)

\* C3: when an edit of a field fails and the field no longer holds the value
\* that edit wrote (a later edit of the same field has replaced it), the
\* rollback leaves the nodes as they are.
C3_RollbackOnlyIfUnchanged ==
    [][\A i \in 1..Len(pending) :
        /\ (/\ pending[i].op = "updateProperty"
            /\ Resolves(i)
            /\ lastOp'.op = "propertyResolve"
            /\ lastOp'.arg = pending[i].key \o "=" \o pending[i].value \o ":fail"
            /\ \E n \in nodes : /\ n.id = pending[i].id
                                /\ Get(n.data, pending[i].key) # pending[i].value)
           => nodes' = nodes
        /\ (/\ pending[i].op = "updateNodeName"
            /\ Resolves(i)
            /\ lastOp'.op = "labelResolve"
            /\ lastOp'.arg = pending[i].label \o ":fail"
            /\ \E n \in nodes : /\ n.id = pending[i].id
                                /\ Get(n.data, "label") # pending[i].label)
           => nodes' = nodes
      ]_vars

----------------------------------------------------------------------------
(* reverseRelationship(edgeId) of the two adapters: checked under SpecRev,   *)
(* whose canvas holds one persisted edge and whose database holds the        *)
(* relationship behind it                                                    *)

\* the longest string property value of the relationship
MaxLen == 2

\* a string is a sequence of characters; NL is the newline character
Chars == {"n", "'", "\\"}
Strings == UNION {[1..k -> Chars] : k \in 0..MaxLen}
SyntaxError == <<"<syntax error>">>

\* v.replace(/'/g, "\\'")
RECURSIVE EscapeQuotes(_)
EscapeQuotes(v) ==
    IF v = <<>> THEN <<>>
    ELSE (IF Head(v) = "'" THEN <<"\\", "'">> ELSE <<Head(v)>>)
            \o EscapeQuotes(Tail(v))

\* the character an escape sequence of a Cypher string literal stands for
Unescaped(ch) == IF ch = "n" THEN "NL" ELSE ch

\* the value of the Cypher string literal '<body>' as the query parser reads
\* it: text is the body followed by the closing quote the query template adds
RECURSIVE ReadLiteral(_, _)
ReadLiteral(text, acc) ==
    IF text = <<>> THEN SyntaxError
    ELSE IF Head(text) = "'"
         THEN (IF Len(text) = 1 THEN acc ELSE SyntaxError)
    ELSE IF Head(text) = "\\"
         THEN (IF Len(text) = 1 THEN SyntaxError
               ELSE ReadLiteral(Tail(Tail(text)),
                                Append(acc, Unescaped(text[2]))))
    ELSE ReadLiteral(Tail(text), Append(acc, Head(text)))

\* the property map the CREATE of the FalkorDB adapter writes for props:
\* `${k}: '${v.replace(/'/g, "\\'")}'` for each string property
FalkorProps(props) ==
    [k \in DOMAIN props |-> ReadLiteral(EscapeQuotes(props[k]) \o <<"'">>, <<>>)]

Relationship(id, source, target, type, payload) ==
    [source |-> source, target |-> target, type |-> type,
     props |-> [id |-> <<id>>, note |-> payload]]

\* MATCH (a)-[r]->(b) WHERE r.id = edgeId
Matching(rels, edgeId) == {r \in rels : r.props.id = <<edgeId>>}

Reversed(r, props) == [r EXCEPT !.source = r.target, !.target = r.source,
                                !.props = props]

\* the query of an adapter call at which the connection to the database
\* fails, if any
Faults == {"none", "match", "delete", "create"}

\* FalkorDBAdapter.reverseRelationship: three separate queries
FalkorReverse(d, edgeId, fault) ==
    LET found == Matching(d.rels, edgeId)
        record == CHOOSE r \in found : TRUE
        kept == d.rels \ found
        props == FalkorProps(record.props)
    IN IF fault = "match" \/ found = {} \/ fault = "delete"
       THEN [ok |-> FALSE, rels |-> d.rels]
       ELSE IF fault = "create" \/ \E k \in DOMAIN props : props[k] = SyntaxError
            THEN [ok |-> FALSE, rels |-> kept]
       ELSE [ok |-> TRUE, rels |-> kept \cup {Reversed(record, props)}]

\* a transaction whose failure leaves the statements already run in place
Uncommitted(ok, before, after) == [ok |-> ok, rels |-> after]

\* session.executeWrite: the transaction function's changes are committed when
\* it returns and rolled back when it throws
ExecuteWrite(ok, before, after) ==
    [ok |-> ok, rels |-> IF ok THEN after ELSE before]

\* Neo4jAdapter.reverseRelationship: one write transaction; the reversed
\* relationship is created between the nodes matched by their id property
Neo4jReverse(d, edgeId, fault) ==
    LET found == Matching(d.rels, edgeId)
        record == CHOOSE r \in found : TRUE
        kept == d.rels \ found
    IN IF fault = "match" \/ found = {}
       THEN ExecuteWrite(FALSE, d.rels, d.rels)
       ELSE IF fault = "delete" THEN ExecuteWrite(FALSE, d.rels, d.rels)
       ELSE IF fault = "create" THEN ExecuteWrite(FALSE, d.rels, kept)
       ELSE IF d.nodesHaveId
            THEN ExecuteWrite(TRUE, d.rels,
                              kept \cup {Reversed(record, record.props)})
       ELSE ExecuteWrite(TRUE, d.rels, kept)

\* getAdapter().reverseRelationship(edgeId)
reverseRelationshipResult(d, edgeId, fault) ==
    IF d.adapter = "falkordb" THEN FalkorReverse(d, edgeId, fault)
    ELSE Neo4jReverse(d, edgeId, fault)

\* one step of the adapter, which is recorded
AdapterStep(o) == /\ clock < MaxSteps
                  /\ clock' = clock + 1
                  /\ lastOp' = o
                  /\ trace' = Append(trace, o)
                  /\ UNCHANGED <<connectingFromRef, registry, falkor, dashboard>>

\* the adapter runs the call and flipEdge continues with its outcome
reverseRelationship(i, fault) ==
    /\ i \in 1..Len(pending)
    /\ pending[i].op = "reverse"
    /\ LET r == reverseRelationshipResult(db, pending[i].id, fault)
       IN /\ AdapterStep(Op("reverseRelationship", pending[i].id,
                            IF r.ok THEN "ok" ELSE "fail"))
          /\ db' = [db EXCEPT !.rels = r.rels]
          /\ FlipSettle(i, r.ok)

Migrated(r, newSourceId, newTargetId, props) ==
    [r EXCEPT !.source = newSourceId, !.target = newTargetId, !.props = props]

\* the nodes of the database
DbNodeIds == {"1", "2"}

\* FalkorDBAdapter.migrateRelationship: three separate queries; the CREATE
\* matches the new end nodes by id(a), id(b)
FalkorMigrate(d, edgeId, newSourceId, newTargetId, fault) ==
    LET found == Matching(d.rels, edgeId)
        record == CHOOSE r \in found : TRUE
        kept == d.rels \ found
        props == FalkorProps(record.props)
    IN IF fault = "match" \/ found = {} \/ fault = "delete"
       THEN [ok |-> FALSE, rels |-> d.rels]
       ELSE IF fault = "create" \/ \E k \in DOMAIN props : props[k] = SyntaxError
            THEN [ok |-> FALSE, rels |-> kept]
       ELSE IF {newSourceId, newTargetId} \subseteq DbNodeIds
            THEN [ok |-> TRUE,
                  rels |-> kept \cup
                        {Migrated(record, newSourceId, newTargetId, props)}]
       ELSE [ok |-> TRUE, rels |-> kept]

\* Neo4jAdapter.migrateRelationship: one write transaction; the CREATE matches
\* the new end nodes by their id property
Neo4jMigrate(d, edgeId, newSourceId, newTargetId, fault) ==
    LET found == Matching(d.rels, edgeId)
        record == CHOOSE r \in found : TRUE
        kept == d.rels \ found
    IN IF fault = "match" \/ found = {}
       THEN ExecuteWrite(FALSE, d.rels, d.rels)
       ELSE IF fault = "delete" THEN ExecuteWrite(FALSE, d.rels, d.rels)
       ELSE IF fault = "create" THEN ExecuteWrite(FALSE, d.rels, kept)
       ELSE IF d.nodesHaveId /\ {newSourceId, newTargetId} \subseteq DbNodeIds
            THEN ExecuteWrite(TRUE, d.rels,
                    kept \cup {Migrated(record, newSourceId, newTargetId,
                                        record.props)})
       ELSE ExecuteWrite(TRUE, d.rels, kept)

\* getAdapter().migrateRelationship(edgeId, newSourceId, newTargetId)
migrateRelationshipResult(d, edgeId, newSourceId, newTargetId, fault) ==
    IF d.adapter = "falkordb"
    THEN FalkorMigrate(d, edgeId, newSourceId, newTargetId, fault)
    ELSE Neo4jMigrate(d, edgeId, newSourceId, newTargetId, fault)

\* the adapter runs the call and onReconnect continues with its outcome
migrateRelationship(i, fault) ==
    /\ i \in 1..Len(pending)
    /\ pending[i].op = "migrate"
    /\ LET c == pending[i]
           r == migrateRelationshipResult(db, c.id, c.newSource, c.newTarget, fault)
       IN /\ AdapterStep(Op("migrateRelationship", c.id,
                            IF r.ok THEN "ok" ELSE "fail"))
          /\ db' = [db EXCEPT !.rels = r.rels]
          /\ MigrateSettle(i, r.ok)

\* the persisted edge and its end nodes; the edge has the id it was created
\* with, by onConnect or by a reconnect of the draft
RevNodes == {DbNode("1", "X1"), DbNode("2", "X2")}
RevEdgeIds == {"e1", "xy-edge__1bottom-h-2top-h"}
RevEdges == {DbEdge("e1", "1", "2", "REL")}

InitRev ==
    /\ nodes = RevNodes
    /\ isSyncing = FALSE
    /\ syncError = Null
    /\ isLoading = FALSE
    /\ nodeIdCounter = FirstNodeId
    /\ clock = 0
    /\ pending = <<>>
    /\ issued = {}
    /\ lastOp = Op("init", "", "")
    /\ trace = <<>>
    /\ connectingFromRef = Null
    /\ registry = NoRegistry
    /\ falkor = NoSession
    /\ dashboard = NoDashboard
    /\ \E a \in {"neo4j", "falkordb"}, h \in BOOLEAN, payload \in Strings,
          id \in RevEdgeIds :
          /\ a = "falkordb" => h
          /\ edges = {DbEdge(id, "1", "2", "REL")}
          /\ db = [adapter |-> a, nodesHaveId |-> h,
                   rels |-> {Relationship(id, "1", "2", "REL", payload)},
                   original |-> {Relationship(id, "1", "2", "REL", payload)}]

NextRev ==
    \/ \E id \in EdgeIdInputs : flipEdge(id)
    \/ \E i \in 1..Len(pending), f \in Faults : reverseRelationship(i, f)
    \/ \E i \in 1..Len(pending) : reverseResolve(i, FALSE)
    \/ \E e \in edges : \E c \in Reconnections(e) : onReconnect(e, c)
    \/ \E i \in 1..Len(pending), f \in Faults : migrateRelationship(i, f)

SpecRev == InitRev /\ [][NextRev]_vars

----------------------------------------------------------------------------
(* deleteSelectedFromDB over persisted nodes and edges: checked under        *)
(* SpecDelete, which starts from the canvas a query has loaded               *)

InitLoaded ==
    /\ nodes = RevNodes
    /\ edges = RevEdges
    /\ isSyncing = FALSE
    /\ syncError = Null
    /\ isLoading = FALSE
    /\ nodeIdCounter = FirstNodeId
    /\ clock = 0
    /\ pending = <<>>
    /\ issued = {}
    /\ lastOp = Op("init", "", "")
    /\ trace = <<>>
    /\ db = NoDb
    /\ connectingFromRef = Null
    /\ registry = NoRegistry
    /\ falkor = NoSession
    /\ dashboard = NoDashboard

\* removeSelectedFromUI: the selected nodes and the selected edges are marked
\* hidden and deselected
removeSelectedFromUI ==
    /\ Step(Op("removeSelectedFromUI", "", ""))
    /\ nodes' = {IF node.selected
                 THEN Spread(node, [hidden |-> TRUE, selected |-> FALSE])
                 ELSE node : node \in nodes}
    /\ edges' = {IF edge.selected
                 THEN Spread(edge, [hidden |-> TRUE, selected |-> FALSE])
                 ELSE edge : edge \in edges}
    /\ UNCHANGED <<isSyncing, syncError, isLoading, nodeIdCounter, pending,
                   issued>>

NextDelete ==
    \/ \E id \in NodeIds, b \in BOOLEAN : onNodesChange(id, b)
    \/ removeSelectedFromUI
    \/ \E e \in edges, b \in BOOLEAN : onEdgesChange(e.id, b)
    \/ deleteSelectedFromDB
    \/ \E i \in 1..Len(pending), ok \in BOOLEAN :
            \E d \in Outstanding(i) : deleteResolve(i, d, ok)

SpecDelete == InitLoaded /\ [][NextDelete]_vars

----------------------------------------------------------------------------
(* The adapter registry of services/database: getOrCreateAdapter and the     *)
(* adapters' initialize, testConnection and close. An adapter's handle is    *)
(* its driver (Neo4jAdapter, named by its connection key) or its accessToken *)
(* (FalkorDBAdapter); Null when it holds none                                *)

MaxAdapters == 3

Providers == {"neo4j", "falkordb"}

ConnectionKeys == {"k1", "k2"}

Configs == [provider : Providers, key : ConnectionKeys]

\* adapter.isInitialized()
isInitialized(r, i) == r.adapters[i].handle # Null

\* adapters[i].close() up to its first await. Neo4jAdapter: with a driver it
\* calls driver.close() and is suspended, this.driver still set; without one
\* it has nothing to do. FalkorDBAdapter: accessToken = null at once.
\* clearsActive tells whether closeAdapter is the caller
close(r, i, clearsActive) ==
    IF r.adapters[i].id = "neo4j"
    THEN IF isInitialized(r, i)
         THEN [r EXCEPT !.closing = @ \cup {<<i, clearsActive>>}]
         ELSE IF clearsActive THEN [r EXCEPT !.activeAdapter = 0] ELSE r
    ELSE LET c == [r EXCEPT !.adapters[i].handle = Null]
         IN  IF clearsActive THEN [c EXCEPT !.activeAdapter = 0] ELSE c

\* adapters[i].initialize(config). Neo4jAdapter: the driver is kept when the
\* connection key is the same, otherwise a new driver replaces it.
\* FalkorDBAdapter: the token stored in sessionStorage, if any, is restored
initialize(r, i, config, storedToken) ==
    IF r.adapters[i].id = "neo4j"
    THEN [r EXCEPT !.adapters[i].handle = config.key]
    ELSE IF storedToken
         THEN [r EXCEPT !.adapters[i].handle = "token"]
         ELSE r

getOrCreateAdapter(r, provider) ==
    IF r.activeAdapter # 0 /\ r.adapters[r.activeAdapter].id = provider
    THEN r
    ELSE LET c == IF r.activeAdapter # 0
                  THEN close(r, r.activeAdapter, FALSE)
                  ELSE r
         IN  [c EXCEPT !.adapters = Append(@, [id |-> provider, handle |-> Null]),
                       !.activeAdapter = Len(c.adapters) + 1]

\* one step of the registry
RegistryStep(r) ==
    /\ Len(r.adapters) <= MaxAdapters
    /\ registry' = r
    /\ UNCHANGED <<storeVars, nodeIdCounter, clock, pending, issued, lastOp,
                   trace, db, connectingFromRef, falkor, dashboard>>

initializeAdapter(config, storedToken) ==
    LET r == getOrCreateAdapter(registry, config.provider)
    IN  RegistryStep(initialize(r, r.activeAdapter, config, storedToken))

\* the live connection: the active adapter if it is initialized, else 0
LiveAdapter(r) ==
    IF r.activeAdapter # 0 /\ isInitialized(r, r.activeAdapter)
    THEN r.activeAdapter ELSE 0

\* the registry once testConnection has reached the adapter's await (the
\* test query, the login)
TestStarted(config) ==
    LET r == getOrCreateAdapter(registry, config.provider)
    IN  [r EXCEPT !.testing = @ \cup {<<r.activeAdapter, config>>}]

testConnection(config) == RegistryStep(TestStarted(config))

\* the test query or login settles: on success the adapter that ran it
\* initializes itself (FalkorDBAdapter also keeps the token it was given)
testResolve(t, ok, storedToken) ==
    /\ t \in registry.testing
    /\ LET r == [registry EXCEPT !.testing = @ \ {t}]
           a == initialize(r, t[1], t[2], storedToken)
       IN  RegistryStep(IF ~ok THEN r
                        ELSE IF r.adapters[t[1]].id = "falkordb"
                             THEN [a EXCEPT !.adapters[t[1]].handle = "token"]
                             ELSE a)

closeAdapter ==
    /\ registry.activeAdapter # 0
    /\ RegistryStep(close(registry, registry.activeAdapter, TRUE))

\* driver.close() settles and Neo4jAdapter.close continues: resolved, it
\* sets this.driver = null (and closeAdapter sets activeAdapter = null);
\* rejected, the adapter keeps its driver
closeResolve(c, ok) ==
    /\ c \in registry.closing
    /\ LET r == [registry EXCEPT !.closing = @ \ {c}]
       IN  RegistryStep(IF ~ok THEN r
                        ELSE LET d == [r EXCEPT !.adapters[c[1]].handle = Null]
                             IN  IF c[2] THEN [d EXCEPT !.activeAdapter = 0]
                                 ELSE d)

NextRegistry ==
    \/ \E config \in Configs, storedToken \in BOOLEAN :
            initializeAdapter(config, storedToken)
    \/ \E config \in Configs : testConnection(config)
    \/ \E t \in registry.testing, ok \in BOOLEAN, storedToken \in BOOLEAN :
            testResolve(t, ok, storedToken)
    \/ closeAdapter
    \/ \E c \in registry.closing, ok \in BOOLEAN : closeResolve(c, ok)

SpecRegistry == Init /\ [][NextRegistry]_vars

\* testConnection called while no test is in flight; lastOp keeps the config
\* and the live connection there was when the call was made
testFromDialog(config) ==
    /\ registry.testing = {}
    /\ Len(TestStarted(config).adapters) <= MaxAdapters
    /\ registry' = TestStarted(config)
    /\ lastOp' = Op("testConnection", config, ToString(LiveAdapter(registry)))
    /\ UNCHANGED <<storeVars, nodeIdCounter, clock, pending, issued, trace, db,
                   connectingFromRef, falkor, dashboard>>

\* the connection dialog used one call at a time: a connection is made or
\* tested only when no test is in flight
NextTest ==
    \/ /\ registry.testing = {}
       /\ \E config \in Configs, storedToken \in BOOLEAN :
            initializeAdapter(config, storedToken)
    \/ \E config \in Configs : testFromDialog(config)
    \/ \E t \in registry.testing, ok \in BOOLEAN, storedToken \in BOOLEAN :
            testResolve(t, ok, storedToken)
    \/ \E c \in registry.closing, ok \in BOOLEAN : closeResolve(c, ok)

SpecTest == Init /\ [][NextTest]_vars

----------------------------------------------------------------------------
(* The adapters' addNodeLabel and removeNodeLabel: what they send to the     *)
(* database for a label. Checked under SpecLabel                             *)

LabelChars == {"A", "9", "_", "-", " "}

LabelStrings == UNION {[1..k -> LabelChars] : k \in 0..MaxLen}

\* [a-zA-Z0-9_]
WordChars == {"A", "9", "_"}

\* the call threw before any query was sent
Rejected == <<"<rejected>">>

\* label.replace(/[^a-zA-Z0-9_]/g, '_')
sanitizedLabel(label) ==
    [i \in 1..Len(label) |-> IF label[i] \in WordChars THEN label[i] ELSE "_"]

\* the label in the query Neo4jAdapter.addNodeLabel / removeNodeLabel sends
Neo4jLabelSent(label) ==
    IF sanitizedLabel(label) = <<>> THEN Rejected ELSE sanitizedLabel(label)

\* the label in the query FalkorDBAdapter.addNodeLabel / removeNodeLabel
\* sends: SET n:${label}, REMOVE n:${label}
FalkorLabelSent(label) == label

LabelSent(adapter, label) ==
    IF adapter = "falkordb" THEN FalkorLabelSent(label)
    ELSE Neo4jLabelSent(label)

\* one call of the adapter with a label; lastOp keeps the label given and
\* the label sent
LabelStep(op, label) ==
    /\ lastOp' = Op(op, label, LabelSent(db.adapter, label))
    /\ UNCHANGED <<storeVars, nodeIdCounter, clock, pending, issued, trace, db,
                   connectingFromRef, registry, falkor, dashboard>>

addNodeLabel(label) == LabelStep("addNodeLabel", label)

removeNodeLabel(label) == LabelStep("removeNodeLabel", label)

InitLabel ==
    /\ nodes = {}
    /\ edges = {}
    /\ isSyncing = FALSE
    /\ syncError = Null
    /\ isLoading = FALSE
    /\ nodeIdCounter = FirstNodeId
    /\ clock = 0
    /\ pending = <<>>
    /\ issued = {}
    /\ lastOp = Op("init", "", "")
    /\ trace = <<>>
    /\ connectingFromRef = Null
    /\ registry = NoRegistry
    /\ falkor = NoSession
    /\ dashboard = NoDashboard
    /\ \E a \in Providers : db = [NoDb EXCEPT !.adapter = a]

NextLabel ==
    \/ \E label \in LabelStrings : addNodeLabel(label)
    \/ \E label \in LabelStrings : removeNodeLabel(label)

SpecLabel == InitLabel /\ [][NextLabel]_vars

----------------------------------------------------------------------------
(* The session of the FalkorDB adapter: initialize, ensureConnection,        *)
(* loginInternal, runQuery and close, against a server whose tokens expire.  *)
(* Checked under SpecSession                                                 *)

MaxTokens == 3

\* one step of the adapter's session
SessionStep(o, f) ==
    /\ lastOp' = o
    /\ falkor' = f
    /\ UNCHANGED <<storeVars, nodeIdCounter, clock, pending, issued, trace, db,
                   connectingFromRef, registry, dashboard>>

\* FalkorDBAdapter.initialize: keeps the config and restores the token of
\* sessionStorage, if there is one
initializeSession ==
    SessionStep(Op("initialize", "", ""),
                [falkor EXCEPT !.currentConfig = TRUE,
                               !.accessToken = IF falkor.stored # Null
                                               THEN falkor.stored ELSE @])

\* FalkorDBAdapter.close
closeSession ==
    SessionStep(Op("close", "", ""), [falkor EXCEPT !.accessToken = Null])

\* the k-th token the server issues
Token(k) == "token" \o ToString(k)

\* the server lets a token it issued expire
expire(t) ==
    /\ t \in {Token(k) : k \in 1..falkor.minted}
    /\ t \notin falkor.expired
    /\ SessionStep(Op("expire", "", ""), [falkor EXCEPT !.expired = @ \cup {t}])

\* loginInternal resolved: the server issues a token, kept in sessionStorage
loginInternal(f) ==
    [f EXCEPT !.minted = @ + 1, !.stored = Token(f.minted + 1)]

\* ensureConnection: a login when there is a config and no token. The
\* result holds the session, whether it threw, and the logins made
ensureConnection(f, loginOk) ==
    IF f.accessToken = Null /\ f.currentConfig
    THEN IF loginOk
         THEN [session |-> [loginInternal(f) EXCEPT !.accessToken = Token(f.minted + 1)],
               threw |-> FALSE, logins |-> 1]
         ELSE [session |-> f, threw |-> TRUE, logins |-> 1]
    ELSE [session |-> f, threw |-> FALSE, logins |-> 0]

\* runQuery: what the caller sees. The fetch is answered 401 when the token
\* sent has expired
runQueryOutcome(f, loginOk) ==
    LET e == ensureConnection(f, loginOk)
    IN  IF e.threw THEN "Auth failed"
        ELSE IF e.session.accessToken = Null THEN "Not connected"
        ELSE IF e.session.accessToken \in e.session.expired
             THEN "Unauthorized: Token expired"
        ELSE "ok"

runQuery(loginOk) ==
    /\ loginOk => falkor.minted < MaxTokens
    /\ LET e == ensureConnection(falkor, loginOk)
       IN  SessionStep(Op("runQuery", runQueryOutcome(falkor, loginOk), e.logins),
                       e.session)

\* FalkorDBAdapter.testConnection: a login with the config given; with a
\* token returned the adapter initializes itself and keeps the token
testConnectionSession(loginOk) ==
    /\ loginOk => falkor.minted < MaxTokens
    /\ SessionStep(Op("testConnection", IF loginOk THEN "ok" ELSE "Auth failed", 1),
                   IF loginOk
                   THEN [loginInternal(falkor) EXCEPT
                            !.currentConfig = TRUE,
                            !.accessToken = Token(falkor.minted + 1)]
                   ELSE falkor)

NextSession ==
    \/ initializeSession
    \/ \E loginOk \in BOOLEAN : testConnectionSession(loginOk)
    \/ closeSession
    \/ \E k \in 1..MaxTokens : expire(Token(k))
    \/ \E loginOk \in BOOLEAN : runQuery(loginOk)

SpecSession == Init /\ [][NextSession]_vars

----------------------------------------------------------------------------
(* The store's mutations with no active adapter: every exported function of  *)
(* services/database is `async function f(..) { return getAdapter().f(..) }`,*)
(* so getAdapter's throw settles the call as a rejection. Checked under      *)
(* SpecNoAdapter, on a canvas that holds loaded entities and a draft node    *)

\* a call that settles as the backend would settle it, adapter or not
DelegateUnchecked(r, ok) == ok

\* how a call through the exported functions settles: rejected when
\* getAdapter() throws, otherwise as the adapter settles it
Delegate(r, ok) == IF r.activeAdapter = 0 THEN FALSE ELSE ok

\* isAdapterInitialized()
isAdapterInitialized(r) ==
    r.activeAdapter # 0 /\ isInitialized(r, r.activeAdapter)

\* checkConnection(): false without an adapter, otherwise the adapter's answer
checkConnection(r, answer) == IF r.activeAdapter # 0 THEN answer ELSE FALSE

\* checkNeo4jConnection: lastOp keeps the isNeo4jConnected it writes
checkNeo4jConnection(answer) ==
    /\ Step(Op("checkNeo4jConnection", "",
               IF isAdapterInitialized(registry) /\ checkConnection(registry, answer)
               THEN "true" ELSE "false"))
    /\ syncError' = Null
    /\ UNCHANGED <<nodes, edges, isSyncing, isLoading, nodeIdCounter, pending,
                   issued>>

\* the steps of a run that follow the ones that built the canvas
MaxNoAdapterSteps == 3

InitNoAdapter ==
    /\ nodes = RevNodes \cup {NewNode(ToString(FirstNodeId), <<100, 100>>)}
    /\ edges = RevEdges
    /\ isSyncing = FALSE
    /\ syncError = Null
    /\ isLoading = FALSE
    /\ nodeIdCounter = FirstNodeId + 1
    /\ clock = MaxSteps - MaxNoAdapterSteps
    /\ pending = <<>>
    /\ issued = {}
    /\ lastOp = Op("init", "", "")
    /\ trace = <<>>
    /\ db = NoDb
    /\ connectingFromRef = Null
    /\ registry = NoRegistry
    /\ falkor = NoSession
    /\ dashboard = NoDashboard

NextNoAdapter ==
    \/ \E id \in NodeIds, l \in Labels : commitDraftNode(id, l)
    \/ \E e \in edges, l \in Labels : commitDraftEdge(e.id, l)
    \/ \E id \in NodeIds, l \in Names : updateNodeLabel(id, l)
    \/ \E id \in NodeIds, k \in PropKeys, v \in PropValues :
            updateNodeProperty(id, k, v)
    \/ \E id \in NodeIds : onNodesChange(id, TRUE)
    \/ \E e \in edges : onEdgesChange(e.id, TRUE)
    \/ deleteSelectedFromDB
    \/ \E e \in edges : flipEdge(e.id)
    \/ \E e \in edges : \E c \in Reconnections(e) : onReconnect(e, c)
    \/ \E answer \in BOOLEAN : checkNeo4jConnection(answer)
    \/ \E i \in 1..Len(pending), ok \in BOOLEAN :
            createNodeResolve(i, Delegate(registry, ok))
    \/ \E i \in 1..Len(pending), ok \in BOOLEAN :
            createEdgeResolve(i, Delegate(registry, ok))
    \/ \E i \in 1..Len(pending), ok \in BOOLEAN :
            labelResolve(i, Delegate(registry, ok))
    \/ \E i \in 1..Len(pending), ok \in BOOLEAN :
            propertyResolve(i, Delegate(registry, ok))
    \/ \E i \in 1..Len(pending), ok \in BOOLEAN :
            \E d \in Outstanding(i) : deleteResolve(i, d, Delegate(registry, ok))
    \/ \E i \in 1..Len(pending), ok \in BOOLEAN :
            reverseResolve(i, Delegate(registry, ok))
    \/ \E i \in 1..Len(pending), ok \in BOOLEAN :
            migrateResolve(i, Delegate(registry, ok))

SpecNoAdapter == InitNoAdapter /\ [][NextNoAdapter]_vars

----------------------------------------------------------------------------
(* Commits of drafts with any label, the empty and the blank one included:   *)
(* checked under SpecCommit, on a canvas with two draft nodes                *)

CommitLabels == {"", " ", "Alice"}

NextCommit ==
    \/ \E s \in NodeIds, t \in NodeIds : onConnect(s, t, "bottom-h", "top-h")
    \/ \E e \in edges, l \in CommitLabels : commitDraftEdge(e.id, l)
    \/ \E id \in NodeIds, l \in CommitLabels : commitDraftNode(id, l)
    \/ \E i \in 1..Len(pending), ok \in BOOLEAN : createEdgeResolve(i, ok)
    \/ \E i \in 1..Len(pending), ok \in BOOLEAN : createNodeResolve(i, ok)

SpecCommit == InitDraft /\ [][NextCommit]_vars

----------------------------------------------------------------------------
(* expandNeighbors on a loaded canvas: checked under SpecExpand              *)

\* what the adapter's expandNeighbors returns for a node: the node with a
\* neighbour the canvas does not hold yet, or with the neighbour it holds
ExpandResults(nodeId) ==
    { [nodes |-> {DbNode(nodeId, "X"), DbNode("3", "X3")},
       edges |-> {DbEdge("r3", nodeId, "3", "REL")}],
      [nodes |-> {DbNode("1", "X1"), DbNode("2", "X2")},
       edges |-> {DbEdge("e1", "1", "2", "REL")}] }

expandNeighbors(nodeId) ==
    /\ Step(Op("expandNeighbors", nodeId, ""))
    /\ isLoading' = TRUE
    /\ issued' = Issue("expandNeighbors", nodeId)
    /\ pending' = Append(pending, [op |-> "expandNeighbors", id |-> nodeId])
    /\ UNCHANGED <<nodes, edges, isSyncing, syncError, nodeIdCounter>>

expandResolve(i, ok, result) ==
    /\ i \in 1..Len(pending)
    /\ pending[i].op = "expandNeighbors"
    /\ Step(Op("expandResolve", pending[i].id, IF ok THEN "ok" ELSE "fail"))
    /\ LET newNodes == NotOnCanvas(result.nodes, nodes)
           newEdges == NotOnCanvas(result.edges, edges)
           layouted == getLayoutedElements(nodes \cup newNodes,
                                           edges \cup newEdges)
       IN  IF ok /\ newNodes # {}
           THEN /\ nodes' = layouted.nodes
                /\ edges' = layouted.edges
           ELSE UNCHANGED <<nodes, edges>>
    /\ isLoading' = FALSE
    /\ pending' = Drop(i)
    /\ UNCHANGED <<isSyncing, syncError, nodeIdCounter, issued>>

NextExpand ==
    \/ \E p \in Positions : addNode(p)
    \/ \E id \in NodeIds, b \in BOOLEAN : onNodesChange(id, b)
    \/ \E id \in NodeIds : expandNeighbors(id)
    \/ \E i \in 1..Len(pending), ok \in BOOLEAN :
            \E result \in ExpandResults(pending[i].id) :
                expandResolve(i, ok, result)

SpecExpand == InitLoaded /\ [][NextExpand]_vars

----------------------------------------------------------------------------
(* The string literals the FalkorDB adapter writes into its query text, and  *)
(* the value the query parser reads from them: checked under SpecEscape.     *)
(* "NL" stands for the newline character                                     *)

EscapeChars == {"a", "'", "\\", "NL"}

EscapeStrings == UNION {[1..k -> EscapeChars] : k \in 0..MaxLen}

\* str.replace(/<ch>/g, <with>)
RECURSIVE ReplaceAll(_, _, _)
ReplaceAll(str, ch, with) ==
    IF str = <<>> THEN <<>>
    ELSE (IF Head(str) = ch THEN with ELSE <<Head(str)>>)
            \o ReplaceAll(Tail(str), ch, with)

\* saveDashboard's escapeForCypher: backslashes, then quotes, then newlines
escapeForCypher(str) ==
    ReplaceAll(ReplaceAll(ReplaceAll(str, "\\", <<"\\", "\\">>),
                          "'", <<"\\", "'">>),
               "NL", <<"\\", "n">>)

\* the body of the literal each operation writes between the quotes
LiteralBody(op, str) ==
    CASE op \in {"createNode", "updateNodeName"} -> str
      [] op \in {"updateNodeProperty", "interpolateParams"} -> EscapeQuotes(str)
      [] op = "saveDashboard" -> escapeForCypher(str)

EscapeOps == {"createNode", "updateNodeName", "updateNodeProperty",
              "interpolateParams", "saveDashboard"}

\* one query built for a string: lastOp keeps the string given and the value
\* the parser reads from the literal
QueryStep(op, str) ==
    /\ lastOp' = Op(op, str, ReadLiteral(LiteralBody(op, str) \o <<"'">>, <<>>))
    /\ UNCHANGED <<storeVars, nodeIdCounter, clock, pending, issued, trace, db,
                   connectingFromRef, registry, falkor, dashboard>>

NextEscape ==
    \/ \E str \in EscapeStrings : QueryStep("createNode", str)
    \/ \E str \in EscapeStrings : QueryStep("updateNodeName", str)
    \/ \E str \in EscapeStrings : QueryStep("updateNodeProperty", str)
    \/ \E str \in EscapeStrings : QueryStep("interpolateParams", str)
    \/ \E str \in EscapeStrings : QueryStep("saveDashboard", str)

SpecEscape == Init /\ [][NextEscape]_vars

----------------------------------------------------------------------------
(* The event-stream parser of FalkorDBAdapter.runQuery: checked under        *)
(* SpecStream, whose initial states are the responses. A payload is kept as  *)
(* the sequence of the data lines that dataBuffer.join('\n') joins           *)

\* what follows `data:` on a line, trimmed
DataContents == {"", "1"}

SseEvents == [type : {"result", "err"},
              data : UNION {[1..k -> DataContents] : k \in 1..MaxLen}]

\* the events of a response, and whether a blank line ends the last one
Responses == [events : UNION {[1..k -> SseEvents] : k \in 1..MaxLen},
              terminated : BOOLEAN]

\* text.split('\n') of the response
RECURSIVE SplitLines(_, _)
SplitLines(events, terminated) ==
    IF events = <<>> THEN <<>>
    ELSE LET e == Head(events)
         IN  <<[kind |-> "event", text |-> e.type]>>
             \o [i \in 1..Len(e.data) |-> [kind |-> "data", text |-> e.data[i]]]
             \o (IF Len(events) > 1 \/ terminated
                 THEN <<[kind |-> "blank", text |-> ""]>> ELSE <<>>)
             \o SplitLines(Tail(events), terminated)

\* the parser's locals; resultData and errorData are {} for null, otherwise
\* they hold the one value assigned
ParserStart == [currentEvent |-> Null, dataBuffer |-> <<>>,
                resultData |-> {}, errorData |-> {}]

\* !fullData.trim(): nothing but line breaks
IsBlank(buffer) == \A i \in 1..Len(buffer) : buffer[i] = ""

\* fullData is the empty string, which is falsy
IsEmptyString(buffer) == buffer = <<>> \/ buffer = <<"">>

\* JSON.parse(fullData), which skips the white space around the value
JSONparse(buffer) == SelectSeq(buffer, LAMBDA l : l # "")

processEvent(p) ==
    LET reset == [p EXCEPT !.dataBuffer = <<>>, !.currentEvent = Null]
    IN  IF p.currentEvent = Null THEN p
        ELSE IF p.currentEvent = "err"
             THEN [reset EXCEPT !.errorData = {p.dataBuffer}]
        ELSE IF p.currentEvent = "result"
             THEN IF IsBlank(p.dataBuffer) THEN p
                  ELSE [reset EXCEPT !.resultData = {JSONparse(p.dataBuffer)}]
        ELSE reset

\* the body of the loop over the lines
ParseLine(p, line) ==
    IF line.kind = "blank" THEN processEvent(p)
    ELSE IF line.kind = "event"
         THEN [processEvent(p) EXCEPT !.currentEvent = line.text]
    ELSE [p EXCEPT !.dataBuffer = Append(@, line.text)]

RECURSIVE ParseLines(_, _)
ParseLines(p, lines) ==
    IF lines = <<>> THEN p
    ELSE ParseLines(ParseLine(p, Head(lines)), Tail(lines))

\* what runQuery does with the response: it throws when errorData is truthy
\* and otherwise returns resultData (null normalizes to the empty result)
ParseResponse(r) ==
    LET p == processEvent(ParseLines(ParserStart,
                                     SplitLines(r.events, r.terminated)))
    IN  [rejected |-> \E d \in p.errorData : ~IsEmptyString(d),
         resultData |-> p.resultData]

InitStream ==
    /\ nodes = {}
    /\ edges = {}
    /\ isSyncing = FALSE
    /\ syncError = Null
    /\ isLoading = FALSE
    /\ nodeIdCounter = FirstNodeId
    /\ clock = 0
    /\ pending = <<>>
    /\ issued = {}
    /\ trace = <<>>
    /\ db = NoDb
    /\ connectingFromRef = Null
    /\ registry = NoRegistry
    /\ falkor = NoSession
    /\ dashboard = NoDashboard
    /\ \E r \in Responses : lastOp = Op("fetch", r, "")

\* runQuery reads the response it was sent: lastOp keeps the response and
\* what the parser made of it
parseResponse ==
    /\ lastOp.op = "fetch"
    /\ lastOp' = Op("parseResponse", lastOp.id, ParseResponse(lastOp.id))
    /\ UNCHANGED <<storeVars, nodeIdCounter, clock, pending, issued, trace, db,
                   connectingFromRef, registry, falkor, dashboard>>

NextStream == parseResponse

SpecStream == InitStream /\ [][NextStream]_vars

----------------------------------------------------------------------------
(* The {nodes, edges} projection of a bulk query result by either adapter:   *)
(* checked under SpecProjection, whose initial states are the raw results    *)

DashboardLabel == "_GraphiveDashboard"

RawIds == {"n1", "n2"}

\* the graph values of the records: each node with its label (or not
\* returned at all) and the relationships returned
RawResults ==
    [labels : [RawIds -> {"absent", "Person", DashboardLabel}],
     rels : SUBSET {[id |-> "r1", start |-> "n1", end |-> "n2"],
                    [id |-> "r2", start |-> "n2", end |-> "n1"],
                    [id |-> "r3", start |-> "n1", end |-> "n1"]},
     provider : Providers]

RawNodes(raw) == {id \in RawIds : raw.labels[id] # "absent"}

\* Neo4jAdapter: pass 1 skips the dashboard nodes, pass 2 resolves each end
\* of every relationship through the map of pass 1 or keeps its internal id
transformNeo4jData(raw) ==
    LET kept == {id \in RawNodes(raw) : raw.labels[id] # DashboardLabel}
        internalToResolvedIdMap == [id \in kept |-> id]
        resolve(id) == IF id \in kept THEN internalToResolvedIdMap[id] ELSE id
    IN  [nodes |-> {[id |-> id, labels |-> raw.labels[id]] : id \in kept},
         edges |-> {[id |-> r.id, source |-> resolve(r.start),
                     target |-> resolve(r.end)] : r \in raw.rels}]

\* FalkorDBAdapter: dashboard nodes are skipped, every relationship value
\* becomes an edge between its sourceId and destinationId
processGraphResult(raw) ==
    [nodes |-> {[id |-> id, labels |-> raw.labels[id]] :
                    id \in {i \in RawNodes(raw) : raw.labels[i] # DashboardLabel}},
     edges |-> {[id |-> "e" \o r.id, source |-> r.start, target |-> r.end] :
                    r \in raw.rels}]

InitProjection ==
    /\ nodes = {}
    /\ edges = {}
    /\ isSyncing = FALSE
    /\ syncError = Null
    /\ isLoading = FALSE
    /\ nodeIdCounter = FirstNodeId
    /\ clock = 0
    /\ pending = <<>>
    /\ issued = {}
    /\ trace = <<>>
    /\ db = NoDb
    /\ connectingFromRef = Null
    /\ registry = NoRegistry
    /\ falkor = NoSession
    /\ dashboard = NoDashboard
    /\ \E raw \in RawResults : lastOp = Op("records", raw, "")

\* executeQuery hands the records to the adapter's projection
executeQuery ==
    /\ lastOp.op = "records"
    /\ lastOp' = Op("executeQuery", lastOp.id,
                    IF lastOp.id.provider = "neo4j"
                    THEN transformNeo4jData(lastOp.id)
                    ELSE processGraphResult(lastOp.id))
    /\ UNCHANGED <<storeVars, nodeIdCounter, clock, pending, issued, trace, db,
                   connectingFromRef, registry, falkor, dashboard>>

NextProjection == executeQuery

SpecProjection == InitProjection /\ [][NextProjection]_vars

----------------------------------------------------------------------------
(* The store on the streaming backend, whose node ids are String(id(n)):     *)
(* small integers. Checked under SpecIds                                      *)

\* the ids FalkorDB hands out around the first placeholder id
FalkorIds == {ToString(FirstNodeId), ToString(FirstNodeId + 1)}

\* the projections of the queries of a run: each one node of the graph
FalkorResults == {[nodes |-> {DbNode(id, "X" \o id)}, edges |-> {}] : id \in FalkorIds}

\* the ids of the nodes on the canvas that are in the graph
PersistedIds == {n.id : n \in {m \in nodes : "_elementId" \in DOMAIN m.data}}

\* FalkorDBAdapter.createNode: the id of the node just created, which no
\* other node of the graph has
falkorCreateNodeResolve(i, ok, realId) ==
    /\ realId \in FalkorIds \ PersistedIds
    /\ createNodeSettle(i, ok, realId)

NextIds ==
    \/ \E p \in Positions : addNode(p)
    \/ \E id \in NodeIdInputs, l \in Labels : commitDraftNode(id, l)
    \/ \E i \in 1..Len(pending), ok \in BOOLEAN, id \in FalkorIds :
            falkorCreateNodeResolve(i, ok, id)
    \/ \E b \in BOOLEAN : executeNeo4jQuery(b)
    \/ \E i \in 1..Len(pending), ok \in BOOLEAN, r \in FalkorResults :
            queryResolve(i, ok, r)

SpecIds == Init /\ [][NextIds]_vars

----------------------------------------------------------------------------
(* Dashboards: loadDashboard, initializeGraph and the layout changes of      *)
(* onNodesChange. Checked under SpecDashboard (and SpecDashboardLive). Node  *)
(* dimensions and the hidden flags of a saved layout are not part of it      *)

\* the dashboards saved in the graph: name, query and saved node positions
SavedDashboards ==
    [d \in {"d1", "d2"} |->
        IF d = "d1"
        THEN [name |-> "One", query |-> "q1", layout |-> [x1 |-> <<10, 10>>]]
        ELSE [name |-> "Two", query |-> "q2", layout |-> [x2 |-> <<30, 30>>]]]

\* the ids loadDashboard is called with: the saved ones and one that is not
DashboardIds == DOMAIN SavedDashboards \cup {"d9"}

\* what the query of a dashboard returns
DashboardGraph(query) ==
    IF query = "q1"
    THEN [nodes |-> {DbNode("x1", "X1"), DbNode("x2", "X2")},
          edges |-> {DbEdge("r1", "x1", "x2", "REL")}]
    ELSE [nodes |-> {DbNode("x2", "X2")}, edges |-> {}]

\* nodesWithLayout: the laid-out nodes, at their saved position if any
WithLayout(ns, layout) ==
    {IF n.id \in DOMAIN layout
     THEN [n EXCEPT !.position = layout[n.id]] ELSE n : n \in ns}

\* the store as a call finds it, kept with the call to state its effect
Before ==
    [activeDashboardId |-> dashboard.activeDashboardId,
     dashboardName |-> dashboard.dashboardName,
     cypherQuery |-> dashboard.cypherQuery,
     isDashboardDirty |-> dashboard.isDashboardDirty,
     nodes |-> nodes, edges |-> edges, clock |-> clock]

\* one step of the dashboard operations
DashboardStep(o, d) ==
    /\ clock < MaxSteps
    /\ clock' = clock + 1
    /\ lastOp' = o
    /\ dashboard' = d
    /\ UNCHANGED <<isSyncing, syncError, nodeIdCounter, issued, trace, db,
                   connectingFromRef, registry, falkor>>

\* loadDashboard up to `await getDashboard(id)`
LoadStarted(o, id, rest, d) ==
    /\ DashboardStep(o, [d EXCEPT !.isRestoring = TRUE])
    /\ isLoading' = TRUE
    /\ pending' = Append(rest, [op |-> "getDashboard", id |-> id,
                                before |-> Before])
    /\ UNCHANGED <<nodes, edges>>

loadDashboard(id) ==
    LoadStarted(Op("loadDashboard", id, ""), id, pending, dashboard)

\* getDashboard settles: rejected, resolved with null, or resolved with the
\* dashboard, whose metadata is set before its query is sent
getDashboardResolve(i, outcome) ==
    /\ i \in 1..Len(pending)
    /\ pending[i].op = "getDashboard"
    /\ outcome = "found" => pending[i].id \in DOMAIN SavedDashboards
    /\ LET c == pending[i]
       IN  IF outcome = "found"
           THEN /\ DashboardStep(Op("getDashboardResolve", c.id, outcome),
                      [dashboard EXCEPT
                          !.activeDashboardId = c.id,
                          !.dashboardName = SavedDashboards[c.id].name,
                          !.cypherQuery = SavedDashboards[c.id].query,
                          !.isDashboardDirty = FALSE])
                /\ pending' = Append(Drop(i),
                      [op |-> "dashboardQuery", id |-> c.id,
                       query |-> SavedDashboards[c.id].query,
                       layout |-> SavedDashboards[c.id].layout,
                       before |-> c.before])
                /\ UNCHANGED isLoading
           ELSE /\ DashboardStep(Op("getDashboardResolve", c.id, outcome),
                                 dashboard)
                /\ pending' = Drop(i)
                /\ isLoading' = FALSE
    /\ UNCHANGED <<nodes, edges>>

\* the dashboard's query settles
dashboardQueryResolve(i, ok) ==
    /\ i \in 1..Len(pending)
    /\ pending[i].op = "dashboardQuery"
    /\ LET c == pending[i]
           result == DashboardGraph(c.query)
           layouted == getLayoutedElements(result.nodes, result.edges)
       IN  IF ok
           THEN /\ DashboardStep(Op("dashboardQueryResolve", c.id, "ok"),
                      [dashboard EXCEPT !.isDashboardDirty = FALSE,
                                        !.isRestoring = TRUE,
                                        !.timeouts = @ + 1])
                /\ nodes' = WithLayout(layouted.nodes, c.layout)
                /\ edges' = layouted.edges
           ELSE /\ DashboardStep(Op("dashboardQueryResolve", c.id, "fail"),
                                 dashboard)
                /\ UNCHANGED <<nodes, edges>>
    /\ isLoading' = FALSE
    /\ pending' = Drop(i)

\* a setTimeout(() => set({ isRestoring: false }), 500) fires
restoreTimeout ==
    /\ dashboard.timeouts > 0
    /\ DashboardStep(Op("setTimeout", "", ""),
                     [dashboard EXCEPT !.isRestoring = FALSE, !.timeouts = @ - 1])
    /\ UNCHANGED <<nodes, edges, isLoading, pending>>

\* where a drag drops a node
DropPosition == <<500, 500>>

\* onNodesChange with a position change: the dashboard is marked dirty and
\* the session auto-saved to localStorage unless a restore is going on
onNodesChangePosition(id) ==
    /\ Has(nodes, id)
    /\ nodes' = MapId(nodes, id, [n \in nodes |-> [n EXCEPT !.position = DropPosition]])
    /\ DashboardStep(Op("onNodesChange", id, "position"),
         IF dashboard.isRestoring THEN dashboard
         ELSE [dashboard EXCEPT
                !.isDashboardDirty = TRUE,
                !.session = {[activeDashboardId |-> dashboard.activeDashboardId,
                              dashboardName |-> dashboard.dashboardName,
                              cypherQuery |-> dashboard.cypherQuery,
                              layout |-> [k \in {n.id : n \in nodes'} |->
                                  (CHOOSE n \in nodes' : n.id = k).position]]}])
    /\ UNCHANGED <<edges, isLoading, pending>>

\* initializeGraph up to `await getDashboards()`
initializeGraph ==
    IF nodes # {}
    THEN /\ DashboardStep(Op("initializeGraph", "", "skip"), dashboard)
         /\ UNCHANGED <<nodes, edges, isLoading, pending>>
    ELSE /\ DashboardStep(Op("initializeGraph", "", ""),
                          [dashboard EXCEPT !.isRestoring = TRUE])
         /\ isLoading' = TRUE
         /\ pending' = Append(pending, [op |-> "getDashboards", id |-> ""])
         /\ UNCHANGED <<nodes, edges>>

\* getDashboards settles. With a dashboard saved, initializeGraph removes the
\* session of localStorage and calls loadDashboard with the first one. With
\* none, or rejected, it restores the session of localStorage if there is
\* one, and otherwise shows the empty canvas
getDashboardsResolve(i, outcome) ==
    /\ i \in 1..Len(pending)
    /\ pending[i].op = "getDashboards"
    /\ IF outcome = "some"
       THEN \E id \in DOMAIN SavedDashboards :
              LoadStarted(Op("getDashboardsResolve", id, outcome), id, Drop(i),
                          [dashboard EXCEPT !.session = {}])
       ELSE /\ IF dashboard.session # {}
               THEN /\ DashboardStep(Op("getDashboardsResolve", "", outcome),
                                     dashboard)
                    /\ pending' = Append(Drop(i),
                                         [op |-> "sessionQuery", id |-> ""])
                    /\ UNCHANGED isLoading
               ELSE /\ DashboardStep(Op("getDashboardsResolve", "", outcome),
                                     [dashboard EXCEPT !.isRestoring = FALSE])
                    /\ pending' = Drop(i)
                    /\ isLoading' = FALSE
            /\ UNCHANGED <<nodes, edges>>

\* the query of the session kept in localStorage settles: resolved, the
\* session is restored as unsaved work; rejected, the canvas stays empty
sessionQueryResolve(i, ok) ==
    /\ i \in 1..Len(pending)
    /\ pending[i].op = "sessionQuery"
    /\ \E session \in dashboard.session :
         LET result == DashboardGraph(session.cypherQuery)
             layouted == getLayoutedElements(result.nodes, result.edges)
         IN  IF ok
             THEN /\ DashboardStep(Op("sessionQueryResolve", "", "ok"),
                        [dashboard EXCEPT
                            !.activeDashboardId = session.activeDashboardId,
                            !.dashboardName = session.dashboardName,
                            !.cypherQuery = session.cypherQuery,
                            !.isDashboardDirty = TRUE,
                            !.isRestoring = FALSE])
                  /\ nodes' = WithLayout(layouted.nodes, session.layout)
                  /\ edges' = layouted.edges
             ELSE /\ DashboardStep(Op("sessionQueryResolve", "", "fail"),
                        [dashboard EXCEPT !.isRestoring = FALSE])
                  /\ UNCHANGED <<nodes, edges>>
    /\ isLoading' = FALSE
    /\ pending' = Drop(i)

\* the sessions a page load can find in localStorage: none, or unsaved work
\* on a new dashboard or on a saved one
Sessions ==
    {{}, {[activeDashboardId |-> Null, dashboardName |-> "Untitled",
           cypherQuery |-> "q1", layout |-> [x1 |-> DropPosition]]},
         {[activeDashboardId |-> "d2", dashboardName |-> "Two",
           cypherQuery |-> "q2", layout |-> [x2 |-> DropPosition]]}}

InitDashboard ==
    /\ nodes = {}
    /\ edges = {}
    /\ isSyncing = FALSE
    /\ syncError = Null
    /\ isLoading = FALSE
    /\ nodeIdCounter = FirstNodeId
    /\ clock = 0
    /\ pending = <<>>
    /\ issued = {}
    /\ lastOp = Op("init", "", "")
    /\ trace = <<>>
    /\ db = NoDb
    /\ connectingFromRef = Null
    /\ registry = NoRegistry
    /\ falkor = NoSession
    /\ \E session \in Sessions : dashboard = [NoDashboard EXCEPT !.session = session]

DashboardCall ==
    \/ \E id \in DashboardIds : loadDashboard(id)
    \/ initializeGraph
    \/ \E n \in nodes : onNodesChangePosition(n.id)

DashboardSettle ==
    \/ \E i \in 1..Len(pending), outcome \in {"found", "missing", "fail"} :
            getDashboardResolve(i, outcome)
    \/ \E i \in 1..Len(pending), ok \in BOOLEAN : dashboardQueryResolve(i, ok)
    \/ \E i \in 1..Len(pending), outcome \in {"some", "none", "fail"} :
            getDashboardsResolve(i, outcome)
    \/ \E i \in 1..Len(pending), ok \in BOOLEAN : sessionQueryResolve(i, ok)
    \/ restoreTimeout

NextDashboard == DashboardCall \/ DashboardSettle

SpecDashboard == InitDashboard /\ [][NextDashboard]_vars

\* the steps the calls in flight in p can still take: a load has its two
\* awaits and its timeout, initializeGraph its await and then a load
RECURSIVE StepsToSettle(_)
StepsToSettle(p) ==
    IF p = <<>> THEN 0
    ELSE (CASE Head(p).op = "getDashboards" -> 4
            [] Head(p).op = "getDashboard" -> 3
            [] Head(p).op = "dashboardQuery" -> 2
            [] OTHER -> 1)
         + StepsToSettle(Tail(p))

\* Every call settles and every timeout fires. A run makes a call only while
\* the steps left suffice for what is in flight to settle
NextDashboardLive ==
    \/ /\ DashboardCall
       /\ clock' + StepsToSettle(pending') + dashboard'.timeouts <= MaxSteps
    \/ DashboardSettle

SpecDashboardLive ==
    InitDashboard /\ [][NextDashboardLive]_vars /\ WF_vars(DashboardSettle)

----------------------------------------------------------------------------
(* The adapters' reverseRelationship and migrateRelationship called on their *)
(* own, with a connection that may fail at any query: checked under SpecTx   *)

\* one call of the adapter, with the query at which it was made to fail
CallStep(op, edgeId, ok, fault) ==
    /\ clock < MaxSteps
    /\ clock' = clock + 1
    /\ lastOp' = Op(op, edgeId, (IF ok THEN "ok" ELSE "fail") \o "@" \o fault)
    /\ UNCHANGED <<storeVars, nodeIdCounter, pending, issued, trace,
                   connectingFromRef, registry, falkor, dashboard>>

reverseRelationshipCall(edgeId, fault) ==
    LET r == reverseRelationshipResult(db, edgeId, fault)
    IN /\ CallStep("reverseRelationship", edgeId, r.ok, fault)
       /\ db' = [db EXCEPT !.rels = r.rels]

migrateRelationshipCall(edgeId, newSourceId, newTargetId, fault) ==
    LET r == migrateRelationshipResult(db, edgeId, newSourceId, newTargetId, fault)
    IN /\ CallStep("migrateRelationship", edgeId, r.ok, fault)
       /\ db' = [db EXCEPT !.rels = r.rels]

NextTx ==
    \/ \E id \in RevEdgeIds, f \in Faults : reverseRelationshipCall(id, f)
    \/ \E id \in RevEdgeIds, a \in DbNodeIds, b \in DbNodeIds, f \in Faults :
            migrateRelationshipCall(id, a, b, f)

SpecTx == InitRev /\ [][NextTx]_vars

\* C10: flipEdge(e) applied twice to a persisted edge with any property
\* payload, both calls resolving successfully, returns the edge in the store to
\* its original source, target and data, and leaves the relationship in the
\* database with its original endpoints, type and property map.
C10_ReverseRoundTrip ==
    (/\ Count("reverse", "e1") = 2
     /\ pending = <<>>
     /\ trace = <<Op("reverseRelationship", "e1", "ok"),
                  Op("reverseRelationship", "e1", "ok")>>)
    => /\ edges = RevEdges
       /\ db.rels = db.original

----------------------------------------------------------------------------
(* Claims about the store, checked under Spec *)

\* what a step must leave alone to have changed no store state and issued no
\* backend call
StoreAndCalls == <<nodes, edges, isSyncing, syncError, isLoading,
                   nodeIdCounter, pending, issued>>

\* C1: in every reachable state each edge's source and target are ids of nodes
\* present in the store (no dangling edge).
C1_NoDanglingEdge ==
    \A e \in edges : e.source \in NodeIds /\ e.target \in NodeIds

\* C4: the rollback of a failed deleteSelectedFromDB or onReconnect puts back
\* only what the operation removed or changed: every node and every edge that
\* is in the store just before the rollback, other than the operation's own,
\* is still there, unchanged, after it.
C4_RollbackIsTargeted ==
    [][\A i \in 1..Len(pending) :
        /\ (/\ pending[i].op = "delete"
            /\ ~pending[i].rejected
            /\ lastOp'.op = "deleteResolve" /\ lastOp'.arg = "fail"
            /\ Len(pending') < Len(pending) \/ pending'[i] # pending[i])
           => LET own == {d[2] : d \in
                            {<<"deleteNode", n.id>> : n \in
                                {m \in pending[i].originalNodes : m.selected}}
                            \cup {<<"deleteEdge", e.id>> : e \in
                                {f \in pending[i].originalEdges : f.selected}}}
              IN /\ \A n \in nodes : n.id \notin own => n \in nodes'
                 /\ \A e \in edges : e.id \notin own => e \in edges'
        /\ (/\ pending[i].op = "migrate"
            /\ lastOp'.op = "migrateResolve" /\ lastOp'.arg = "fail"
            /\ Len(pending') < Len(pending))
           => (\A e \in edges : e.id # pending[i].id => e \in edges')
      ]_vars

\* C5: onConnect with source = target leaves the store's nodes, edges and sync
\* flags unchanged and issues no adapter call.
C5_SelfLoopRejected ==
    [][(lastOp'.op = "onConnect" /\ lastOp'.id = lastOp'.arg)
        => UNCHANGED StoreAndCalls]_vars

\* a self-loop connect has been attempted on a canvas that holds nodes and edges
C5_Witness ==
    /\ lastOp.op = "onConnect" /\ lastOp.id = lastOp.arg
    /\ lastOp.id \in NodeIds
    /\ edges # {}

\* C6: in every reachable state no edge has its source equal to its target.
C6_NoSelfLoop == \A e \in edges : e.source # e.target

\* a createNode call for placeholder id is in flight
Committing(id) ==
    \E i \in 1..Len(pending) : pending[i].op = "createNode" /\ pending[i].id = id

\* C7: when discardDraftNode(id) is invoked while commitDraftNode(id)'s
\* createNode call is unresolved, the discard changes nothing and issues no
\* call; createNode is issued at most once for an id; and when the call
\* resolves with the node still on the canvas, the node is persisted under the
\* backend id (success) or removed (failure).
C7_CommitThenDiscard ==
    [][/\ (lastOp'.op = "discardDraftNode" /\ Committing(lastOp'.id))
            => UNCHANGED StoreAndCalls
       /\ \A c \in issued' : c[1] = "createNode" => c[3] = 1
       /\ \A i \in 1..Len(pending) :
            (/\ pending[i].op = "createNode"
             /\ lastOp'.op = "createNodeResolve"
             /\ lastOp'.id = pending[i].id
             /\ \E n \in nodes : n.id = pending[i].id)
            => /\ ~\E n \in nodes' : n.id = pending[i].id
               /\ lastOp'.arg = "ok" =>
                    \E n \in nodes' : /\ n.id = pending[i].newId
                                      /\ n.data.isDraft = FALSE
                                      /\ n.data._elementId = pending[i].newId
               /\ lastOp'.arg = "fail" =>
                    ~\E n \in nodes' : n.id = pending[i].newId
      ]_vars

C9_EdgeDraftIdempotent ==
    [][/\ \A c \in issued' : c[1] = "createEdge" => c[3] = 1
       /\ (/\ lastOp'.op \in {"commitDraftEdge", "discardDraftEdge"}
           /\ \E e \in edges :
                /\ e.id = lastOp'.id
                /\ \/ ~Truthy(e.data, "isDraft")
                   \/ \E i \in 1..Len(pending) :
                        pending[i].op = "createEdge" /\ pending[i].id = e.id)
          => UNCHANGED StoreAndCalls
      ]_vars

\* C11: when the createNode call of commitDraftNode for placeholder id P
\* succeeds with backend id B, then after the step no node has id P, the node
\* that had id P has id B with its position and its other data unchanged, and
\* every edge has B wherever it had P, and is otherwise unchanged.
C11_IdReconciled ==
    [][\A i \in 1..Len(pending) :
        (/\ pending[i].op = "createNode"
         /\ Resolves(i)
         /\ lastOp' = Op("createNodeResolve", pending[i].id, "ok"))
        => LET P == pending[i].id
               B == pending[i].newId
           IN /\ ~\E n \in nodes' : n.id = P
              /\ \A n \in nodes : n.id = P =>
                    \E m \in nodes' :
                        /\ m.id = B
                        /\ m.position = n.position
                        /\ m.selected = n.selected
                        /\ \A k \in DOMAIN n.data \ {"_elementId"} :
                                k \in DOMAIN m.data /\ m.data[k] = n.data[k]
              /\ \A f \in edges' : f.source # P /\ f.target # P
              /\ \A e \in edges :
                    \E f \in edges' :
                        /\ f.id = e.id
                        /\ f.source = (IF e.source = P THEN B ELSE e.source)
                        /\ f.target = (IF e.target = P THEN B ELSE e.target)
                        /\ f.data = e.data
      ]_vars

\* a commit has just succeeded for a node that an edge was attached to
C11_Witness ==
    /\ lastOp.op = "createNodeResolve" /\ lastOp.arg = "ok"
    /\ \E n \in nodes, e \in edges :
            /\ Get(n.data, "_elementId") = n.id
            /\ "isDraft" \in DOMAIN n.data
            /\ n.id \in {e.source, e.target}

\* C12: a connect gesture begun on node B and ended on another node A adds to
\* the store an edge with source B and target A, whichever of the two the
\* canvas reports as the source.
C12_DragOriginIsSource ==
    [][(/\ lastOp'.op = "handleConnect"
        /\ lastOp'.id # lastOp'.arg
        /\ connectingFromRef \in {lastOp'.id, lastOp'.arg}
        /\ connectingFromRef # Null)
        => \A e \in edges' \ edges :
            /\ e.source = connectingFromRef
            /\ e.target = (IF lastOp'.id = connectingFromRef
                           THEN lastOp'.arg ELSE lastOp'.id)
      ]_vars

\* the canvas has reported the node the drag began on as the target, and the
\* gesture has added an edge
C12_Witness ==
    /\ lastOp.op = "handleConnect"
    /\ lastOp.arg = connectingFromRef
    /\ lastOp.id \notin {lastOp.arg, Null}
    /\ \E e \in edges :
            e.id = "e" \o lastOp.arg \o "-" \o lastOp.id \o "-" \o ToString(clock - 1)

\* C13: a merge-mode query that resolves on a canvas leaves every node that
\* was on the canvas where it was, with its data, and the only node with its
\* id, also when the result holds a node with that id; likewise every edge on
\* the canvas stays the only edge with its id.
C13_MergeKeepsExisting ==
    [][lastOp' = Op("queryResolve", "merge", "ok")
        => /\ \A x \in nodes :
                Cardinality({m \in nodes : m.id = x.id}) = 1
                => /\ x \in nodes'
                   /\ Cardinality({m \in nodes' : m.id = x.id}) = 1
           /\ \A e \in edges :
                Cardinality({f \in edges : f.id = e.id}) = 1
                => /\ e \in edges'
                   /\ Cardinality({f \in edges' : f.id = e.id}) = 1
      ]_vars

\* a merge-mode query whose result holds x1 and x2 has resolved on a canvas
\* that held x1: x2 has been added to the right of it
C13_Witness ==
    /\ lastOp = Op("queryResolve", "merge", "ok")
    /\ \E x \in nodes, y \in nodes :
            /\ x.id = "x1" /\ x.position[1] < 300
            /\ y.id = "x2" /\ y.position[1] >= 300

\* C14: when, on the adapter that runs separate queries, the create query of
\* migrateRelationship fails after its delete query has removed the
\* relationship, the call rejects and the edge is then absent from the store,
\* or carries a draft or pending marker next to the failure signal.
C14_PartialMigrationMarked ==
    [][\A i \in 1..Len(pending) :
        (/\ pending[i].op = "migrate"
         /\ Resolves(i)
         /\ db.adapter = "falkordb"
         /\ \E r \in db.rels : r.props.id = <<pending[i].id>>
         /\ ~\E r \in db'.rels : r.props.id = <<pending[i].id>>
         /\ lastOp'.op = "migrateRelationship")
        => /\ lastOp'.arg = "fail"
           /\ syncError' # Null
           /\ \A e \in edges' :
                e.id = pending[i].id =>
                    \/ Truthy(e.data, "isDraft")
                    \/ Truthy(e.data, "isPending")
      ]_vars

\* C20: on the transactional adapter a reverseRelationship or
\* migrateRelationship call that fails, at whichever step, leaves the
\* database's relationships, with their endpoints, types and properties, as
\* they were before the call.
C20_FailedTransactionChangesNothing ==
    [][(/\ db.adapter = "neo4j"
        /\ lastOp'.op \in {"reverseRelationship", "migrateRelationship"}
        /\ lastOp'.arg \in {"fail@" \o f : f \in Faults})
        => db'.rels = db.rels]_vars

\* a call on the transactional adapter has failed at its create step, after
\* its delete step had run on a relationship that was there
C20_Witness ==
    /\ db.adapter = "neo4j"
    /\ lastOp.op \in {"reverseRelationship", "migrateRelationship"}
    /\ lastOp.arg = "fail@create"
    /\ \E r \in db.rels : r.props.id = <<lastOp.id>>

\* C15: every backend call issued with the id of a node or edge that is a
\* draft, or whose commit has not resolved, is the create call that commits it.
C15_DraftIsolation ==
    [][\A c \in issued' \ issued :
        c[1] \notin {"createNode", "createEdge", "query"}
        => /\ ~\E n \in nodes : n.id = c[2] /\ Truthy(n.data, "isDraft")
           /\ ~\E e \in edges : e.id = c[2] /\ Truthy(e.data, "isDraft")
           /\ ~Committing(c[2])
      ]_vars

\* the entities whose Commit, Delete, Migrate or Reverse call the i-th pending
\* call is
Owned(i) ==
    IF pending[i].op = "delete" THEN {d[2] : d \in pending[i].outstanding}
    ELSE IF pending[i].op \in {"createNode", "createEdge", "migrate", "reverse"}
         THEN {pending[i].id}
    ELSE {}

\* C16: at any moment at most one Commit, Delete, Migrate or Reverse backend
\* call is outstanding for an entity id.
C16_OneCallPerEntity ==
    \A i \in 1..Len(pending), j \in 1..Len(pending) :
        i < j => Owned(i) \cap Owned(j) = {}

\* the backend calls whose then- and catch-branches write isSyncing
MarkerCalls == {"createNode", "createEdge", "delete", "migrate"}

C18_RollbackOnlyWhatExists ==
    [][\A i \in 1..Len(pending) :
        (/\ pending[i].op = "delete"
         /\ ~pending[i].rejected
         /\ lastOp'.op = "deleteResolve" /\ lastOp'.arg = "fail"
         /\ Len(pending') < Len(pending) \/ pending'[i] # pending[i])
        => LET c == pending[i]
               deletedNodes ==
                    {n.id : n \in {m \in c.originalNodes : m.selected}}
                    \ {d[2] : d \in {x \in c.outstanding : x[1] = "deleteNode"}}
               deletedEdges ==
                    {e.id : e \in {f \in c.originalEdges : f.selected}}
                    \ {d[2] : d \in {x \in c.outstanding : x[1] = "deleteEdge"}}
           IN /\ \A n \in nodes' : n.id \in deletedNodes
                    => Truthy(n.data, "isDraft") \/ Truthy(n.data, "isPending")
              /\ \A e \in edges' : e.id \in deletedEdges
                    => Truthy(e.data, "isDraft") \/ Truthy(e.data, "isPending")
      ]_vars

\* C19: when the registry constructs an adapter for another provider, the
\* previous adapter has released its connection handle by then, and at no
\* point do two adapters hold a handle.
C19_CloseBeforeConstruct ==
    [][/\ (Len(registry'.adapters) > Len(registry.adapters)
            /\ registry.activeAdapter # 0)
          => ~isInitialized(registry', registry.activeAdapter)
       /\ \A i \in 1..Len(registry'.adapters), j \in 1..Len(registry'.adapters) :
            isInitialized(registry', i) /\ isInitialized(registry', j) => i = j
      ]_vars

\* C21: whenever reverseRelationship(e) returns successfully for a
\* relationship a->b, the database holds exactly one relationship with id e,
\* directed b->a, with the type and the property map it had, also when the
\* end nodes have no id property.
C21_ReversedExactlyOnce ==
    [][(lastOp'.op = "reverseRelationship" /\ lastOp'.arg = "ok@none")
        => \A r \in Matching(db.rels, lastOp'.id) :
                Matching(db'.rels, lastOp'.id) = {Reversed(r, r.props)}
      ]_vars

\* C22: on the Neo4j adapter a successful migrateRelationship(e, s, t), with
\* s and t the ids the store holds for two nodes of the database, leaves
\* relationship e in the database, between two of its nodes, with its type,
\* properties and id preserved.
C22_MigratedByEitherIdentity ==
    [][(/\ db.adapter = "neo4j"
        /\ lastOp'.op = "migrateRelationship" /\ lastOp'.arg = "ok@none")
        => \A r \in Matching(db.rels, lastOp'.id) :
            \E s \in DbNodeIds, t \in DbNodeIds :
                Matching(db'.rels, lastOp'.id) = {Migrated(r, s, t, r.props)}
      ]_vars

\* C23: addNodeLabel / removeNodeLabel with a label holding a character
\* outside [A-Za-z0-9_] is rejected and sends nothing; a label made of those
\* characters only is sent unmodified.
C23_LabelCharset ==
    lastOp.op \in {"addNodeLabel", "removeNodeLabel"}
    => IF \E i \in 1..Len(lastOp.id) : lastOp.id[i] \notin WordChars
       THEN lastOp.arg = Rejected
       ELSE lastOp.id # <<>> => lastOp.arg = lastOp.id

\* C24: a runQuery made by an initialized FalkorDB adapter whose token was
\* never obtained or has expired re-authenticates exactly once; the caller
\* sees an auth failure only if that login fails, and after a successful
\* login the adapter holds a token that has not expired.
C24_ReloginOnce ==
    [][(/\ lastOp'.op = "runQuery"
        /\ falkor.currentConfig
        /\ falkor.accessToken = Null \/ falkor.accessToken \in falkor.expired)
        => /\ lastOp'.arg = 1
           /\ lastOp'.id \in {"ok", "Auth failed"}
           /\ lastOp'.id = "ok"
                => /\ falkor'.accessToken # Null
                   /\ falkor'.accessToken \notin falkor'.expired
      ]_vars

\* C25: with no active adapter the call of every store mutation settles as a
\* rejection that drives the failure branch: isSyncing is cleared (flipEdge
\* never sets it and leaves it alone), the optimistic change is rolled back
\* and syncError is set (updateNodeProperty only notifies);
\* checkNeo4jConnection reports false.
C25_NoAdapterFailureBranch ==
    [][registry.activeAdapter = 0 =>
        /\ \A i \in 1..Len(pending) :
              LET c == pending[i]
              IN  (\/ Resolves(i)
                   \/ /\ c.op = "delete" /\ ~c.rejected
                      /\ Len(pending') = Len(pending) /\ pending'[i] # c)
                  => /\ IF c.op = "reverse" THEN isSyncing' = isSyncing
                        ELSE ~isSyncing'
                     /\ c.op = "createNode"
                            => ~Has(nodes', c.id) /\ syncError' # Null
                     /\ c.op = "createEdge"
                            => edges' = edges /\ syncError' # Null
                     /\ c.op = "updateNodeName"
                            => /\ syncError' # Null
                               /\ \A n \in nodes' : n.id = c.id =>
                                    Get(n.data, "name") = c.originalName
                     /\ c.op = "updateProperty"
                            => \A n \in nodes' : n.id = c.id =>
                                    Get(n.data, c.key) = c.originalValue
                     /\ (c.op = "delete" /\ ~c.rejected)
                            => /\ nodes' = c.originalNodes
                               /\ edges' = c.originalEdges
                               /\ syncError' # Null
                     /\ c.op \in {"migrate", "reverse"} => syncError' # Null
        /\ lastOp'.op = "checkNeo4jConnection" => lastOp'.arg = "false"
      ]_vars

\* a mutation invoked with no adapter has had its call rejected and its
\* failure branch run
C25_Witness ==
    /\ registry.activeAdapter = 0
    /\ lastOp.op = "createNodeResolve" /\ lastOp.arg = "fail"
    /\ ~isSyncing /\ syncError = "Failed to create node"
    /\ ~Has(nodes, ToString(FirstNodeId))

\* C26: updateNodeLabel or updateNodeProperty on a node id that is not in the
\* store leaves the store, sync flags included, unchanged and issues no
\* backend call.
C26_UnknownTargetIsNoOp ==
    [][(/\ lastOp'.op \in {"updateNodeLabel", "updateNodeProperty"}
        /\ clock' = clock + 1
        /\ ~Has(nodes, lastOp'.id))
        => /\ storeVars' = storeVars
           /\ issued' = issued
           /\ pending' = pending
      ]_vars

\* C27: commitDraftNode or commitDraftEdge of a draft with a label that is
\* empty after trimming removes the draft from the store and issues no
\* backend create call.
C27_EmptyLabelDiscards ==
    [][(/\ clock' = clock + 1
        /\ Trim(lastOp'.arg) = "")
        => /\ (lastOp'.op = "commitDraftNode" /\ IsDraftNode(lastOp'.id))
                => ~Has(nodes', lastOp'.id) /\ issued' = issued
           /\ (lastOp'.op = "commitDraftEdge" /\ Has(edges, lastOp'.id)
                    /\ Truthy(Find(edges, lastOp'.id).data, "isDraft"))
                => ~Has(edges', lastOp'.id) /\ issued' = issued
      ]_vars

\* C28: after deleteSelectedFromDB no edge remains whose source or target is
\* a removed node, and after removeSelectedFromUI every edge whose source or
\* target is a node the operation hid is hidden, selected or not.
C28_DeleteCascades ==
    [][LET selectedNodeIds == {n.id : n \in {m \in nodes : m.selected}}
       IN  /\ (lastOp'.op = "deleteSelectedFromDB" /\ clock' = clock + 1)
                => \A e \in edges' : {e.source, e.target} \cap selectedNodeIds = {}
           /\ (lastOp'.op = "removeSelectedFromUI" /\ clock' = clock + 1)
                => \A e \in edges' :
                        {e.source, e.target} \cap selectedNodeIds # {}
                            => Truthy(e, "hidden")
      ]_vars

\* C29: after expandNeighbors(n) resolves, every node that was on the canvas
\* before keeps its position.
C29_LayoutOnlyNewNodes ==
    [][(lastOp'.op = "expandResolve" /\ clock' = clock + 1)
        => \A n \in nodes :
            \E m \in nodes' : m.id = n.id /\ m.position = n.position
      ]_vars

\* C30: for every string a name or property mutation of the FalkorDB adapter
\* writes into its query (createNode, updateNodeName, updateNodeProperty,
\* parameter interpolation), the literal emitted reads back as exactly that
\* string, with no quote ending it early.
C30_LiteralReadsBack ==
    lastOp.op \in EscapeOps \ {"saveDashboard"} => lastOp.arg = lastOp.id

\* C31: for a response made of events whose result events carry a value, the
\* parser rejects whenever there is an err event, and otherwise returns the
\* payload of the result event, made of exactly that event's data lines.
C31_StreamParsed ==
    lastOp.op = "parseResponse"
    => LET events == lastOp.id.events
           results == {i \in 1..Len(events) : events[i].type = "result"}
           last == CHOOSE i \in results : \A j \in results : j <= i
       IN  (\A i \in results : ~IsBlank(events[i].data))
           => IF \E i \in 1..Len(events) : events[i].type = "err"
              THEN lastOp.arg.rejected
              ELSE /\ ~lastOp.arg.rejected
                   /\ lastOp.arg.resultData = {JSONparse(events[last].data)}

\* C32: in the projection of a bulk query result no node carries the
\* dashboard label and no edge starts or ends at a dashboard node.
C32_ProjectionHygiene ==
    lastOp.op = "executeQuery"
    => LET raw == lastOp.id
           dashboards == {id \in RawNodes(raw) : raw.labels[id] = DashboardLabel}
       IN  /\ \A n \in lastOp.arg.nodes : n.labels # DashboardLabel
           /\ \A e \in lastOp.arg.edges :
                  e.source \notin dashboards /\ e.target \notin dashboards

\* the node half of C32 alone, which both adapters satisfy
C32_NoDashboardNode ==
    lastOp.op = "executeQuery"
    => \A n \in lastOp.arg.nodes : n.labels # DashboardLabel

\* the backend mutation calls of the store, as they are named in pending
MutationOps == {"createEdge", "createNode", "updateNodeName", "updateProperty",
                "delete", "migrate", "reverse"}

\* C33: isSyncing is true in every state in which a backend mutation call
\* issued by the store is still unresolved.
C33_SyncingWhileInFlight ==
    (\E i \in 1..Len(pending) : pending[i].op \in MutationOps) => isSyncing

\* C33 for the calls other than reverse, which never raises the flag
C33_SyncingWhileFlagged ==
    (\E i \in 1..Len(pending) : pending[i].op \in MutationOps \ {"reverse"})
    => isSyncing

\* C34: when commitDraftEdge's createEdge call resolves, every edge other
\* than the committed one is in the store exactly as it was just before, and
\* the committed edge changes in its draft and editing flags and label only.
C34_CommitWriteIsPatch ==
    [][\A i \in 1..Len(pending) :
        (/\ pending[i].op = "createEdge"
         /\ lastOp'.op = "createEdgeResolve" /\ lastOp'.arg = "ok"
         /\ lastOp'.id = pending[i].id
         /\ Len(pending') < Len(pending)
         /\ pending' = Drop(i))
        => /\ {e \in edges' : e.id # pending[i].id}
                = {e \in edges : e.id # pending[i].id}
           /\ \A e \in edges : e.id = pending[i].id
                => \E f \in edges' :
                     f = [e EXCEPT !.data = Spread(e.data,
                            [isDraft |-> FALSE, isEditing |-> FALSE,
                             label |-> pending[i].finalLabel])]
      ]_vars

\* C35: no two nodes of the store share an id.
C35_NodeIdsUnique ==
    \A n \in nodes, m \in nodes : n.id = m.id => n = m

\* C36: when testConnection(config) fails, the registry's active adapter is
\* the instance that was active before the call, and it is still initialized.
C36_FailedTestKeepsConnection ==
    [][\A t \in registry.testing :
        (/\ registry' = [registry EXCEPT !.testing = @ \ {t}]
         /\ lastOp.op = "testConnection"
         /\ lastOp.arg # "0")
        => /\ ToString(registry'.activeAdapter) = lastOp.arg
           /\ LiveAdapter(registry') = registry'.activeAdapter
      ]_vars

\* C36 for a test of the provider of the live connection
C36_SameProviderKeepsConnection ==
    [][\A t \in registry.testing :
        (/\ registry' = [registry EXCEPT !.testing = @ \ {t}]
         /\ lastOp.op = "testConnection"
         /\ lastOp.arg # "0"
         /\ registry.adapters[t[1]].id = t[2].provider
         /\ ToString(t[1]) = lastOp.arg)
        => /\ ToString(registry'.activeAdapter) = lastOp.arg
           /\ LiveAdapter(registry') = registry'.activeAdapter
      ]_vars

\* C37: whenever isRestoring is set, it eventually becomes false again.
C37_RestoreFlagTransient ==
    dashboard.isRestoring ~> ~dashboard.isRestoring

\* C38: when a loadDashboard that nothing else interleaved with fails
\* (dashboard missing, getDashboard or its query rejected), the dashboard
\* metadata and the canvas are what they were before the call.
C38_LoadAllOrNothing ==
    [][\A i \in 1..Len(pending) :
        LET c == pending[i]
        IN  (/\ c.op \in {"getDashboard", "dashboardQuery"}
             /\ lastOp'.op \in {"getDashboardResolve", "dashboardQueryResolve"}
             /\ lastOp'.arg \in {"missing", "fail"}
             /\ lastOp'.id = c.id
             /\ pending' = Drop(i)
             /\ clock' = c.before.clock
                            + (IF c.op = "getDashboard" THEN 2 ELSE 3))
            => /\ dashboard'.activeDashboardId = c.before.activeDashboardId
               /\ dashboard'.dashboardName = c.before.dashboardName
               /\ dashboard'.cypherQuery = c.before.cypherQuery
               /\ dashboard'.isDashboardDirty = c.before.isDashboardDirty
               /\ nodes' = c.before.nodes
               /\ edges' = c.before.edges
      ]_vars

\* C38 for the failures before the dashboard is found
C38_MissingChangesNothing ==
    [][\A i \in 1..Len(pending) :
        LET c == pending[i]
        IN  (/\ c.op = "getDashboard"
             /\ lastOp'.op = "getDashboardResolve"
             /\ lastOp'.arg \in {"missing", "fail"}
             /\ lastOp'.id = c.id
             /\ pending' = Drop(i)
             /\ clock' = c.before.clock + 2)
            => /\ dashboard'.activeDashboardId = c.before.activeDashboardId
               /\ dashboard'.dashboardName = c.before.dashboardName
               /\ dashboard'.cypherQuery = c.before.cypherQuery
               /\ dashboard'.isDashboardDirty = c.before.isDashboardDirty
               /\ nodes' = c.before.nodes
               /\ edges' = c.before.edges
      ]_vars

\* C39: when an updateNodeProperty or a deleteNodeProperty of a key the node
\* did not have fails, with no other call in between, the node's key set
\* after the rollback is its key set before the call.
C39_RollbackRestoresAbsence ==
    [][(/\ Len(pending) = 1 /\ Len(trace) = 1
        /\ pending[1].op \in {"updateProperty", "deleteProperty"}
        /\ lastOp'.op \in {"propertyResolve", "deletePropertyResolve"}
        /\ lastOp'.arg = pending[1].key \o "=" \o pending[1].value \o ":fail"
        /\ Has(pending[1].originalNodes, pending[1].id)
        /\ pending[1].key
              \notin DOMAIN Find(pending[1].originalNodes, pending[1].id).data)
       => \A n \in nodes' :
            n.id = pending[1].id
            => DOMAIN n.data
                 = DOMAIN Find(pending[1].originalNodes, pending[1].id).data
      ]_vars

\* C39 for a key the node had: the failed call leaves the node as it was
C39_RollbackRestoresValue ==
    [][(/\ Len(pending) = 1 /\ Len(trace) = 1
        /\ pending[1].op \in {"updateProperty", "deleteProperty"}
        /\ lastOp'.op \in {"propertyResolve", "deletePropertyResolve"}
        /\ lastOp'.arg = pending[1].key \o "=" \o pending[1].value \o ":fail"
        /\ Has(pending[1].originalNodes, pending[1].id)
        /\ pending[1].key
              \in DOMAIN Find(pending[1].originalNodes, pending[1].id).data)
       => nodes' = pending[1].originalNodes
      ]_vars

====
